---- MODULE Spec2Model ----
(***************************************************************************)
(* Real-time session synchronisation of kiko-backend: the PubSub hub       *)
(* (messaging.rs), the in-memory session store (services/sessions.rs),     *)
(* the Session aggregate (kiko/src/data.rs) and the per-WebSocket          *)
(* connection handler with its listener task (handlers/v1/websocket.rs).   *)
(*                                                                         *)
(* Option<T> is modelled as a set with at most one element: {} is None and *)
(* {x} is Some(x).                                                         *)
(***************************************************************************)
EXTENDS Naturals, FiniteSets, Sequences, TLC

\* ------------------------------------------------------------------ bounds

\* Mailbox writes (publishes that found a notifier) in one behaviour.
MaxPublishes == 3
\* Notify objects created by subscribe in one behaviour.
MaxNotifiers == 2

SessionIds == {"S1", "S2"}
\* The session ids the tasks calling the hub's API use.
HubSessionIds == {"S1"}
Topics == {"", "x"}
Conns == {"A", "B"}
\* A third connection, which joins and then leaves while the others observe.
Leaver == "P"
AllConns == Conns \cup {Leaver}
Names == {"Alice"}
\* PointSession.points: Option<u32>
Points == {{}, {5}}
\* Inbound frames handled in one behaviour.
MaxFrames == 3
\* Participant ids generated for the tasks calling the session service.
MaxParticipants == 2
HubTasks == {"t1", "t2"}
\* A task that only publishes, while the others wait.
Publisher == "t3"
AllHubTasks == HubTasks \cup {Publisher}

Max(a, b) == IF a >= b THEN a ELSE b
Min(a, b) == IF a <= b THEN a ELSE b

\* ------------------------------------------------------------- data.rs

\* Session::new: no members, empty topic, no points, hide_points false.
\* current_points (HashMap<ParticipantId, Option<u32>>) is a set of entries
\* [id, points] with one entry for an id at most.
NewSession(id) ==
    [id |-> id, name |-> "Sprint 1", duration |-> 1800, members |-> <<>>,
     current_topic |-> "", current_points |-> {}, hide_points |-> FALSE]

\* Participant::new
Participant(id, name) == [id |-> id, name |-> name]

MemberIds(session) == {session.members[i].id : i \in 1..Len(session.members)}

\* The participant ids that have an entry in the session's point map.
PointKeys(session) == {e.id : e \in session.current_points}

\* Session::add_participant: members.push(participant)
add_participant(session, participant) ==
    [session EXCEPT !.members = Append(@, participant)]

\* Session::remove_participant: members.retain(|p| &p.id != participant_id)
remove_participant(session, participant_id) ==
    [session EXCEPT !.members = SelectSeq(@, LAMBDA m : m.id # participant_id)]

\* Session::set_topic
set_topic(session, topic) == [session EXCEPT !.current_topic = topic]

\* Mutant: the session is reset to a new one of the same id.
clear_session(session) == NewSession(session.id)

\* Session::clear_points
clear_points(session) == [session EXCEPT !.current_points = {}]

\* Mutant: the flag is set, whatever it was.
set_hide_points(session) == [session EXCEPT !.hide_points = TRUE]

\* Session::toggle_hide_points
toggle_hide_points(session) == [session EXCEPT !.hide_points = ~@]

\* Mutant: the vote is inserted without looking at the participant list.
point_unchecked(session, participant_id, points) ==
    [session EXCEPT !.current_points =
        {e \in @ : e.id # participant_id} \cup {[id |-> participant_id, points |-> points]}]

\* Session::point: ignored for an id that is no member, else insert(id, points)
point(session, participant_id, points) ==
    IF participant_id \notin MemberIds(session)
      THEN session
      ELSE [session EXCEPT !.current_points =
              {e \in @ : e.id # participant_id} \cup {[id |-> participant_id, points |-> points]}]

\* ------------------------------------------------------------ messaging.rs

VARIABLES
    notifiers,   \* PubSub.notifiers: session id -> Option<Arc<Notify>> (a Notify is named by a number)
    events,      \* PubSub.events: session id -> Option<event>, event = [seq, msg]
    notified,    \* the pending Notified future of every waiter: Option<[n, fired]>
    nextNotify,  \* number of Notify objects created so far
    pubSeq,      \* number of mailbox writes so far; the k-th write stores seq k
    everSub,     \* history: session ids for which subscribe was ever called
    registered,  \* history: session ids subscribed and not cleaned up since
    taken,       \* history: seq -> how often consume_event returned that event (capped at 2)
    last,        \* history: the latest completed step of a hub call and what it returned
    task,        \* the tasks that call the hub's API directly
    store,       \* SessionServiceInMemory.sessions: session id -> Option<Session>
    conn,        \* per WebSocket: ConnectionState and the position of handle_socket
    lst,         \* per WebSocket: the listener task spawned by setup_subscription
    chan,        \* per WebSocket: the messages queued in the outbound mpsc channel
    out,         \* per WebSocket: the frames written to the socket so far
    nextPid,     \* number of participant ids generated so far
    usedIds,     \* the session ids SessionId::new has generated so far
    frames       \* number of inbound frames handled so far

hubVars == <<notifiers, events, notified, nextNotify, pubSeq, everSub, registered, taken>>
apiVars == <<taken, last, task>>
connVars == <<store, conn, lst, chan, out, nextPid, usedIds, frames>>
vars == <<notifiers, events, notified, nextNotify, pubSeq, everSub, registered, taken, last, task,
          store, conn, lst, chan, out, nextPid, usedIds, frames>>

\* The payloads the API tasks publish: SessionUpdate snapshots.
HubMsgs == {set_topic(NewSession(s), t) : s \in {"S1"}, t \in Topics}

\* Mutant: subscribe inserts a new Notify whether or not one is registered.
subscribe_replace(nf, s, fresh) == [nf EXCEPT ![s] = {fresh}]

\* PubSub::subscribe, on the notifier map: entry(session_id).or_insert_with(Notify::new)
subscribe(nf, s, fresh) == IF nf[s] = {} THEN [nf EXCEPT ![s] = {fresh}] ELSE nf

\* Mutant: the mailbox write keeps an entry that is already there (or_insert).
publish_insert_keep(ev, s, e) == IF ev[s] = {} THEN [ev EXCEPT ![s] = {e}] ELSE ev

\* PubSub::publish, the mailbox write: events.insert(session_id, ArcSwap::from_pointee(message))
publish_insert(ev, s, e) == [ev EXCEPT ![s] = {e}]

\* Mutant: notify_one, a single waiting future is completed.
notify_one(fs, n, k) ==
    LET ws == {w \in DOMAIN fs : \E f \in fs[w] : f.n = n}
    IN  IF ws = {} THEN fs
        ELSE LET w0 == CHOOSE w \in ws : TRUE
             IN  [fs EXCEPT ![w0] = {[f EXCEPT !.fired = Max(f.fired, k)] : f \in fs[w0]}]

\* PubSub::publish, notifier.notify_waiters(): every Notified future that exists
\* for this Notify is completed; no permit is stored for futures created later.
\* fired records the latest mailbox write whose publish completed the future.
notify_waiters(fs, n, k) ==
    [w \in DOMAIN fs |->
        {IF f.n = n THEN [f EXCEPT !.fired = Max(f.fired, k)] ELSE f : f \in fs[w]}]

\* PubSub::get_event: events.get(session_id).map(load_full)
get_event(ev, s) == ev[s]

\* PubSub::consume_event, the value returned: events.remove(session_id).map(load_full)
consume_event(ev, s) == ev[s]

\* Mutant: the entry is read but stays in the map.
events_remove_noop(ev, s) == ev

\* PubSub::consume_event and cleanup_session, the map after events.remove(session_id)
events_remove(ev, s) == [ev EXCEPT ![s] = {}]

\* Mutant: cleanup_session leaves the notifier registered.
notifiers_keep(nf, s) == nf

\* Mutant: cleanup_session clears the whole notifier map.
notifiers_clear(nf, s) == [x \in DOMAIN nf |-> {}]

\* PubSub::cleanup_session, notifiers.remove(session_id)
notifiers_remove(nf, s) == [nf EXCEPT ![s] = {}]

\* PubSub::has_event: events.contains_key(session_id)
has_event(ev, s) == ev[s] # {}

\* PubSub::session_count: notifiers.len()
session_count(nf) == Cardinality({s \in DOMAIN nf : nf[s] # {}})

\* Notify::notified(): a new future on Notify n, not yet completed.
NewNotified(n) == [n |-> n, fired |-> 0]

\* ---------------------------------------------- tasks calling the hub's API

NoOp == [t |-> "t1", op |-> "none", sid |-> "S1", ev |-> {}, flag |-> FALSE, cnt |-> 0]
Ret(t, op, s, ev, flag, cnt) ==
    [t |-> t, op |-> op, sid |-> s, ev |-> ev, flag |-> flag, cnt |-> cnt]

\* held: the guards of the hub's two RwLocks the task holds across steps.
IdleTask ==
    [pc |-> "idle", sid |-> "S1", msg |-> {}, found |-> {}, seq |-> 0, handle |-> {}, held |-> {}]

\* The task is back from its call.
Idle(t) == [task[t] EXCEPT !.pc = "idle", !.sid = "S1", !.msg = {}, !.found = {}, !.seq = 0]

Taken(tk, ev) == [k \in DOMAIN tk |-> IF \E e \in ev : e.seq = k THEN Min(tk[k] + 1, 2) ELSE tk[k]]

\* History: the handles obtained for session s before a cleanup_session(s).
Stale(tk, s) ==
    [u \in DOMAIN tk |->
        [tk[u] EXCEPT !.handle = {IF h.sid = s THEN [h EXCEPT !.stale = TRUE] ELSE h : h \in tk[u].handle}]]

\* tokio RwLock: read() is granted when no other task holds the write guard,
\* write() when no other task holds any guard of the lock. (The lock's FIFO
\* queue only delays a grant; it is left out.)
CanRead(t, l) ==
    \A u \in AllHubTasks \ {t} : [lock |-> l, mode |-> "write"] \notin task[u].held

CanWrite(t, l) ==
    \A u \in AllHubTasks \ {t} : \A h \in task[u].held : h.lock # l

hub_subscribe(t, s) ==
    /\ task[t].pc = "idle"
    /\ notifiers[s] # {} \/ nextNotify < MaxNotifiers
    /\ notifiers' = subscribe(notifiers, s, nextNotify + 1)
    /\ nextNotify' = IF notifiers[s] = {} THEN nextNotify + 1 ELSE nextNotify
    /\ everSub' = everSub \cup {s}
    /\ registered' = registered \cup {s}
    /\ task' = [task EXCEPT ![t] =
                  [Idle(t) EXCEPT !.handle = {[sid |-> s, n |-> n, stale |-> FALSE] : n \in notifiers'[s]}]]
    /\ last' = Ret(t, "subscribe", s, {}, s \notin everSub, 0)
    /\ UNCHANGED connVars
    /\ UNCHANGED <<events, notified, pubSeq, taken>>

\* publish is called: the task is about to take the notifiers read lock.
hub_publish(t, s, m) ==
    /\ task[t].pc = "idle"
    /\ task' = [task EXCEPT ![t].pc = "pub_lookup", ![t].sid = s, ![t].msg = {m}]
    /\ UNCHANGED connVars
    /\ UNCHANGED <<hubVars, last>>

\* Mutant: publish stores the event although no notifier is registered.
hub_publish_lookup_store(t) ==
    /\ task[t].pc = "pub_lookup"
    /\ task' = [task EXCEPT ![t].pc = "pub_insert", ![t].found = notifiers[task[t].sid]]
    /\ UNCHANGED connVars
    /\ UNCHANGED <<hubVars, last>>

\* Mutant: the notifiers read guard is kept after the lookup.
hub_publish_lookup_holds(t) ==
    /\ task[t].pc = "pub_lookup"
    /\ IF notifiers[task[t].sid] = {}
         THEN /\ task' = [task EXCEPT ![t] = Idle(t)]
              /\ last' = Ret(t, "publish_dropped", task[t].sid, {}, FALSE, 0)
         ELSE /\ task' = [task EXCEPT ![t].pc = "pub_insert", ![t].found = notifiers[task[t].sid],
                                      ![t].held = {[lock |-> "notifiers", mode |-> "read"]}]
              /\ last' = last
    /\ UNCHANGED connVars
    /\ UNCHANGED hubVars

\* publish: self.notifiers.read().await.get(&session_id).cloned(); None ends the call.
hub_publish_lookup(t) ==
    /\ task[t].pc = "pub_lookup"
    /\ IF notifiers[task[t].sid] = {}
         THEN /\ task' = [task EXCEPT ![t] = Idle(t)]
              /\ last' = Ret(t, "publish_dropped", task[t].sid, {}, FALSE, 0)
         ELSE /\ task' = [task EXCEPT ![t].pc = "pub_insert", ![t].found = notifiers[task[t].sid]]
              /\ last' = last
    /\ UNCHANGED connVars
    /\ UNCHANGED hubVars

\* publish: the mailbox write under the events write lock.
hub_publish_insert(t) ==
    /\ task[t].pc = "pub_insert"
    /\ pubSeq < MaxPublishes
    /\ pubSeq' = pubSeq + 1
    /\ \E m \in task[t].msg :
         /\ events' = publish_insert(events, task[t].sid, [seq |-> pubSeq + 1, msg |-> m])
         /\ last' = Ret(t, "publish_insert", task[t].sid, {[seq |-> pubSeq + 1, msg |-> m]}, FALSE, 0)
    /\ task' = [task EXCEPT ![t].pc = "pub_notify", ![t].seq = pubSeq + 1]
    /\ UNCHANGED connVars
    /\ UNCHANGED <<notifiers, notified, nextNotify, everSub, registered, taken>>

\* publish: notifier.notify_waiters(), after the write lock was dropped.
hub_publish_notify(t) ==
    /\ task[t].pc = "pub_notify"
    /\ \E n \in task[t].found : notified' = notify_waiters(notified, n, task[t].seq)
    /\ task' = [task EXCEPT ![t] = Idle(t)]
    /\ last' = Ret(t, "publish", task[t].sid, {}, FALSE, task[t].seq)
    /\ UNCHANGED connVars
    /\ UNCHANGED <<notifiers, events, nextNotify, pubSeq, everSub, registered, taken>>

\* Mutant: get_event takes the entry out of the map.
hub_get_event_destructive(t, s) ==
    /\ task[t].pc = "idle"
    /\ last' = Ret(t, "get_event", s, get_event(events, s), FALSE, 0)
    /\ events' = events_remove(events, s)
    /\ UNCHANGED connVars
    /\ UNCHANGED <<notifiers, notified, nextNotify, pubSeq, everSub, registered, taken, task>>

hub_get_event(t, s) ==
    /\ task[t].pc = "idle"
    /\ last' = Ret(t, "get_event", s, get_event(events, s), FALSE, 0)
    /\ UNCHANGED connVars
    /\ UNCHANGED <<hubVars, task>>

\* Mutant: consume_event drops the session's notifier together with the event.
hub_consume_event_unregisters(t, s) ==
    /\ task[t].pc = "idle"
    /\ events' = events_remove(events, s)
    /\ notifiers' = notifiers_remove(notifiers, s)
    /\ last' = Ret(t, "consume_event", s, consume_event(events, s), FALSE, 0)
    /\ taken' = Taken(taken, consume_event(events, s))
    /\ UNCHANGED connVars
    /\ UNCHANGED <<notified, nextNotify, pubSeq, everSub, registered, task>>

hub_consume_event(t, s) ==
    /\ task[t].pc = "idle"
    /\ events' = events_remove(events, s)
    /\ last' = Ret(t, "consume_event", s, consume_event(events, s), FALSE, 0)
    /\ taken' = Taken(taken, consume_event(events, s))
    /\ UNCHANGED connVars
    /\ UNCHANGED <<notifiers, notified, nextNotify, pubSeq, everSub, registered, task>>

hub_cleanup_session(t, s) ==
    /\ task[t].pc = "idle"
    /\ events' = events_remove(events, s)
    /\ notifiers' = notifiers_remove(notifiers, s)
    /\ last' = Ret(t, "cleanup_session", s, {}, FALSE, 0)
    /\ task' = Stale(task, s)
    /\ registered' = registered \ {s}
    /\ UNCHANGED connVars
    /\ UNCHANGED <<notified, nextNotify, pubSeq, everSub, taken>>

\* cleanup_session: let mut events = self.events.write().await; the guard is
\* held while the notifiers write lock is awaited.
hub_cleanup_session_lock(t, s) ==
    /\ task[t].pc = "idle"
    /\ CanWrite(t, "events")
    /\ task' = [task EXCEPT ![t].pc = "cleanup_notifiers", ![t].sid = s,
                            ![t].held = {[lock |-> "events", mode |-> "write"]}]
    /\ UNCHANGED connVars
    /\ UNCHANGED <<hubVars, last>>

\* cleanup_session: let mut notifiers = self.notifiers.write().await; both
\* removals; both guards are dropped at the end of the function.
hub_cleanup_session_remove(t) ==
    /\ task[t].pc = "cleanup_notifiers"
    /\ CanWrite(t, "notifiers")
    /\ events' = events_remove(events, task[t].sid)
    /\ notifiers' = notifiers_remove(notifiers, task[t].sid)
    /\ last' = Ret(t, "cleanup_session", task[t].sid, {}, FALSE, 0)
    /\ task' = Stale([task EXCEPT ![t] = [Idle(t) EXCEPT !.held = {}]], task[t].sid)
    /\ registered' = registered \ {task[t].sid}
    /\ UNCHANGED connVars
    /\ UNCHANGED <<notified, nextNotify, pubSeq, everSub, taken>>

hub_has_event(t, s) ==
    /\ task[t].pc = "idle"
    /\ last' = Ret(t, "has_event", s, {}, has_event(events, s), 0)
    /\ UNCHANGED connVars
    /\ UNCHANGED <<hubVars, task>>

hub_session_count(t) ==
    /\ task[t].pc = "idle"
    /\ last' = Ret(t, "session_count", "S1", {}, FALSE, session_count(notifiers))
    /\ UNCHANGED connVars
    /\ UNCHANGED <<hubVars, task>>

\* notifier.notified(): the task creates a wait future from the handle it holds.
hub_notified(t) ==
    /\ task[t].pc = "idle"
    /\ \E h \in task[t].handle :
         /\ notified' = [notified EXCEPT ![t] = {NewNotified(h.n)}]
         /\ task' = [task EXCEPT ![t].pc = "waiting", ![t].sid = h.sid]
    /\ UNCHANGED connVars
    /\ UNCHANGED <<notifiers, events, nextNotify, pubSeq, everSub, registered, taken, last>>

\* notified.await returns once the future has been completed by notify_waiters.
hub_notified_await(t) ==
    /\ task[t].pc = "waiting"
    /\ \E f \in notified[t] : f.fired > 0
    /\ task' = [task EXCEPT ![t] = Idle(t)]
    /\ notified' = [notified EXCEPT ![t] = {}]
    /\ UNCHANGED connVars
    /\ UNCHANGED <<notifiers, events, nextNotify, pubSeq, everSub, registered, taken, last>>

\* ------------------------------------------------- services/sessions.rs

\* SessionServiceInMemory::get: a clone of the stored session, or NotFound (None)
store_get(st, s) == st[s]

\* SessionServiceInMemory::update: NotFound for an absent id, else the value is replaced
store_update(st, s, session) == IF st[s] = {} THEN st ELSE [st EXCEPT ![s] = {session}]

\* Mutant: create replaces the whole map by the new session.
store_create_alone(st, s) == [x \in DOMAIN st |-> IF x = s THEN {NewSession(s)} ELSE {}]

\* SessionServiceInMemory::create: a new session under a newly generated id
store_create(st, s) == [st EXCEPT ![s] = {NewSession(s)}]

\* DashMap::insert, as update calls it after its contains_key: the entry is
\* written whether or not the key is (still) present.
sessions_insert(st, s, session) == [st EXCEPT ![s] = {session}]

\* DashMap::remove
sessions_remove(st, s) == [st EXCEPT ![s] = {}]

\* ------------------------------------ tasks calling the session service

\* The sessions the tasks pass to update.
UpdateValues(s) == {set_topic(NewSession(s), topic) : topic \in Topics}

\* create: Session::new generates the id, the session is inserted and returned.
sessions_create(t, s) ==
    /\ task[t].pc = "idle"
    /\ s \notin usedIds
    /\ usedIds' = usedIds \cup {s}
    /\ store' = store_create(store, s)
    /\ last' = Ret(t, "create", s, store'[s], TRUE, 0)
    /\ UNCHANGED <<hubVars, task, conn, lst, chan, out, nextPid, frames>>

\* get: a clone of the entry, or the error "Session not found"
sessions_get(t, s) ==
    /\ task[t].pc = "idle"
    /\ last' = Ret(t, "get", s, store_get(store, s), store_get(store, s) # {}, 0)
    /\ UNCHANGED <<hubVars, task, store, conn, lst, chan, out, nextPid, usedIds, frames>>

\* update, up to its contains_key: the error for an absent id, else the task
\* goes on to the insert; the shard lock is released in between.
sessions_update(t, s, session) ==
    /\ task[t].pc = "idle"
    /\ IF store[s] = {}
         THEN /\ last' = Ret(t, "update", s, {}, FALSE, 0)
              /\ task' = task
         ELSE /\ task' = [task EXCEPT ![t].pc = "update_insert", ![t].sid = s, ![t].msg = {session}]
              /\ last' = last
    /\ UNCHANGED <<hubVars, store, conn, lst, chan, out, nextPid, usedIds, frames>>

\* Mutant: update returns Ok for an absent id and goes on to insert.
sessions_update_upsert(t) ==
    /\ task[t].pc = "idle"
    /\ \E s \in SessionIds :
         /\ store[s] = {}
         /\ store' = sessions_insert(store, s, NewSession(s))
         /\ last' = Ret(t, "update", s, store'[s], TRUE, 0)
    /\ UNCHANGED <<hubVars, task, conn, lst, chan, out, nextPid, usedIds, frames>>

\* update: self.sessions.insert(session_id.clone(), session.clone()); Ok(session)
sessions_update_insert(t) ==
    /\ task[t].pc = "update_insert"
    /\ \E session \in task[t].msg : store' = sessions_insert(store, task[t].sid, session)
    /\ last' = Ret(t, "update", task[t].sid, task[t].msg, TRUE, 0)
    /\ task' = [task EXCEPT ![t] = Idle(t)]
    /\ UNCHANGED <<hubVars, conn, lst, chan, out, nextPid, usedIds, frames>>

\* join: under get_mut's lock a participant with a new id is pushed.
sessions_join(t, s, name) ==
    /\ task[t].pc = "idle"
    /\ nextPid < MaxParticipants
    /\ IF store[s] = {}
         THEN /\ last' = Ret(t, "join", s, {}, FALSE, 0)
              /\ UNCHANGED <<store, nextPid>>
         ELSE /\ nextPid' = nextPid + 1
              /\ store' = [store EXCEPT ![s] =
                             {add_participant(x, Participant(nextPid + 1, name)) : x \in @}]
              /\ last' = Ret(t, "join", s, {}, TRUE, nextPid + 1)
    /\ UNCHANGED <<hubVars, task, conn, lst, chan, out, usedIds, frames>>

\* Mutant: leave fails for a participant id that is not in the session.
sessions_leave_strict(t, s, p) ==
    /\ task[t].pc = "idle"
    /\ store' = [store EXCEPT ![s] = {remove_participant(x, p) : x \in @}]
    /\ last' = Ret(t, "leave", s, {}, \E x \in store[s] : p \in MemberIds(x), p)
    /\ UNCHANGED <<hubVars, task, conn, lst, chan, out, nextPid, usedIds, frames>>

\* leave: under get_mut's lock the participant is removed; Ok whether or not
\* the id was a member.
sessions_leave(t, s, p) ==
    /\ task[t].pc = "idle"
    /\ store' = [store EXCEPT ![s] = {remove_participant(x, p) : x \in @}]
    /\ last' = Ret(t, "leave", s, {}, store[s] # {}, p)
    /\ UNCHANGED <<hubVars, task, conn, lst, chan, out, nextPid, usedIds, frames>>

\* Mutant: end empties the whole map.
sessions_end_all(t, s) ==
    /\ task[t].pc = "idle"
    /\ store' = [x \in DOMAIN store |-> IF store[s] = {} THEN store[x] ELSE {}]
    /\ last' = Ret(t, "end", s, {}, store[s] # {}, 0)
    /\ UNCHANGED <<hubVars, task, conn, lst, chan, out, nextPid, usedIds, frames>>

\* end: the entry is removed, or the error "Session not found"
sessions_end(t, s) ==
    /\ task[t].pc = "idle"
    /\ store' = sessions_remove(store, s)
    /\ last' = Ret(t, "end", s, {}, store[s] # {}, 0)
    /\ UNCHANGED <<hubVars, task, conn, lst, chan, out, nextPid, usedIds, frames>>

\* -------------------------------------------------- handlers/v1/websocket.rs

\* ConnectionState::new, with the handler at the top of handle_socket's loop.
\* cur is the session snapshot a handler holds between its store get and its
\* publish, sid the session id it works on, found and seq the notifier its
\* publish looked up and the mailbox write it made, added (history) the
\* participant ids generated by this connection's JoinSession frames,
\* closed_at (history) the number of mailbox writes made when it closed,
\* written (history) those of its participant ids that one of its
\* sessions.update calls has put in the store.
NewConnection ==
    [pc |-> "select", session_id |-> {}, participant_id |-> {}, task_handle |-> FALSE,
     outbound_rx |-> FALSE, closing |-> FALSE, sid |-> "S1", cur |-> {}, found |-> {}, seq |-> 0,
     added |-> {}, closed_at |-> {}, written |-> {}]

\* No listener task has been spawned. woke (history) is the mailbox write of
\* the publish that completed the future the listener last awaited, since
\* (history) the number of mailbox writes made before its first wait future.
NoListener == [pc |-> "none", sid |-> "S1", n |-> {}, woke |-> 0, msg |-> {}, since |-> 0]

\* serde_json::to_string(&SessionMessage::SessionUpdate(session)): the text
\* frame; seq (history) names the publish that wrote the event it was made of.
ToJson(e) == [tag |-> "SessionUpdate", session |-> {e.msg}, seq |-> e.seq, on |-> "publish"]

\* WebSocketError's text, as send_error writes it to the socket; on (history)
\* is the kind of inbound frame the error answers.
ErrorText(err, on) == [tag |-> err, session |-> {}, seq |-> 0, on |-> on]

\* send_error: the error text goes to this connection's socket only.
send_error(c, err, on) == out' = [out EXCEPT ![c] = Append(@, ErrorText(err, on))]

\* The handler finished a frame (response None, nothing is sent) or, in
\* cleanup_connection, goes on to cleanup_subscription.
Done(c) ==
    [conn[c] EXCEPT !.pc = IF conn[c].closing THEN "cleanup" ELSE "select",
                    !.cur = {}, !.found = {}, !.seq = 0, !.sid = "S1"]

\* POST /session: sessions.create
http_create_session(s) ==
    /\ s \notin usedIds
    /\ usedIds' = usedIds \cup {s}
    /\ store' = store_create(store, s)
    /\ UNCHANGED <<hubVars, apiVars, conn, lst, chan, out, nextPid, frames>>

\* A handler fetched the session and changed its copy: next is sessions.update.
Mutating(c, s, session) == [conn[c] EXCEPT !.pc = "update", !.sid = s, !.cur = {session}]

\* handle_join_session up to sessions.update
handle_join_session(c, s, name) ==
    /\ conn[c].pc = "select"
    /\ frames' = frames + 1
    /\ IF store_get(store, s) = {}
         THEN /\ send_error(c, "SessionNotFound", "JoinSession")
              /\ UNCHANGED <<conn, nextPid>>
         ELSE /\ nextPid' = nextPid + 1
              /\ \E session \in store_get(store, s) :
                   conn' = [conn EXCEPT ![c] =
                      [Mutating(c, s, add_participant(session, Participant(nextPid + 1, name)))
                          EXCEPT !.participant_id = {nextPid + 1},
                                 !.added = @ \cup {nextPid + 1}]]
              /\ out' = out
    /\ UNCHANGED <<hubVars, apiVars, usedIds, store, lst, chan>>

\* Mutant: setup_subscription without the is_subscribed check.
handle_subscribe_again(c, s) ==
    /\ conn[c].pc = "select"
    /\ frames' = frames + 1
    /\ IF store_get(store, s) = {}
         THEN send_error(c, "SessionNotFound", "SubscribeToSession") /\ conn' = conn
         ELSE /\ conn' = [conn EXCEPT ![c].pc = "subscribe", ![c].sid = s, ![c].session_id = {s}]
              /\ out' = out
    /\ UNCHANGED <<hubVars, apiVars, usedIds, store, lst, chan, nextPid>>

\* Mutant: setup_subscription without the look-up of the session in the store.
handle_subscribe_unchecked(c, s) ==
    /\ conn[c].pc = "select"
    /\ frames' = frames + 1
    /\ IF conn[c].task_handle
         THEN send_error(c, "AlreadySubscribed", "SubscribeToSession") /\ conn' = conn
         ELSE /\ conn' = [conn EXCEPT ![c].pc = "subscribe", ![c].sid = s, ![c].session_id = {s}]
              /\ out' = out
    /\ UNCHANGED <<hubVars, apiVars, usedIds, store, lst, chan, nextPid>>

\* handle_subscribe_to_session, setup_subscription up to pub_sub.subscribe
handle_subscribe_to_session(c, s) ==
    /\ conn[c].pc = "select"
    /\ frames' = frames + 1
    /\ IF conn[c].task_handle
         THEN send_error(c, "AlreadySubscribed", "SubscribeToSession") /\ conn' = conn
         ELSE IF store_get(store, s) = {}
           THEN send_error(c, "SessionNotFound", "SubscribeToSession") /\ conn' = conn
           ELSE /\ conn' = [conn EXCEPT ![c].pc = "subscribe", ![c].sid = s, ![c].session_id = {s}]
                /\ out' = out
    /\ UNCHANGED <<hubVars, apiVars, usedIds, store, lst, chan, nextPid>>

\* setup_subscription from pub_sub.subscribe on: the channel is created and
\* the listener task spawned; SubscriptionStarted sends nothing.
setup_subscription(c) ==
    /\ conn[c].pc = "subscribe"
    /\ notifiers' = subscribe(notifiers, conn[c].sid, nextNotify + 1)
    /\ nextNotify' = IF notifiers[conn[c].sid] = {} THEN nextNotify + 1 ELSE nextNotify
    /\ everSub' = everSub \cup {conn[c].sid}
    /\ registered' = registered \cup {conn[c].sid}
    /\ lst' = [lst EXCEPT ![c] = [NoListener EXCEPT !.pc = "start", !.sid = conn[c].sid,
                                                    !.n = notifiers'[conn[c].sid]]]
    /\ chan' = [chan EXCEPT ![c] = <<>>]
    /\ conn' = [conn EXCEPT ![c] = [Done(c) EXCEPT !.outbound_rx = TRUE, !.task_handle = TRUE]]
    /\ UNCHANGED <<events, notified, pubSeq, apiVars, usedIds, store, out, nextPid, frames>>

\* handle_remove_participant up to sessions.update
handle_remove_participant(c, s, p) ==
    /\ conn[c].pc = "select"
    /\ frames' = frames + 1
    /\ IF store_get(store, s) = {}
         THEN send_error(c, "SessionNotFound", "RemoveParticipant") /\ conn' = conn
         ELSE /\ \E session \in store_get(store, s) :
                   conn' = [conn EXCEPT ![c] = Mutating(c, s, remove_participant(session, p))]
              /\ out' = out
    /\ UNCHANGED <<hubVars, apiVars, usedIds, store, lst, chan, nextPid>>

\* handle_point_session up to sessions.update
handle_point_session(c, s, p, v) ==
    /\ conn[c].pc = "select"
    /\ frames' = frames + 1
    /\ IF store_get(store, s) = {}
         THEN send_error(c, "SessionNotFound", "PointSession") /\ conn' = conn
         ELSE /\ \E session \in store_get(store, s) :
                   conn' = [conn EXCEPT ![c] = Mutating(c, s, point(session, p, v))]
              /\ out' = out
    /\ UNCHANGED <<hubVars, apiVars, usedIds, store, lst, chan, nextPid>>

\* state.sessions.get(&session_id) for the session id of conn_state, if any
BoundSession(c) == UNION {store_get(store, s) : s \in conn[c].session_id}

\* handle_set_topic up to sessions.update, on the connection's bound session id
handle_set_topic(c, topic) ==
    /\ conn[c].pc = "select"
    /\ frames' = frames + 1
    /\ IF conn[c].session_id = {}
         THEN send_error(c, "NotSubscribed", "SetTopic") /\ conn' = conn
         ELSE IF BoundSession(c) = {}
           THEN send_error(c, "SessionNotFound", "SetTopic") /\ conn' = conn
           ELSE /\ \E s \in conn[c].session_id : \E session \in BoundSession(c) :
                     conn' = [conn EXCEPT ![c] = Mutating(c, s, set_topic(session, topic))]
                /\ out' = out
    /\ UNCHANGED <<hubVars, apiVars, usedIds, store, lst, chan, nextPid>>

\* Mutant: a connection without a bound session id clears the points of S1.
handle_clear_points_unbound(c) ==
    /\ conn[c].pc = "select"
    /\ frames' = frames + 1
    /\ IF store_get(store, "S1") = {}
         THEN send_error(c, "SessionNotFound", "ClearPoints") /\ conn' = conn
         ELSE /\ \E session \in store_get(store, "S1") :
                   conn' = [conn EXCEPT ![c] = Mutating(c, "S1", clear_points(session))]
              /\ out' = out
    /\ UNCHANGED <<hubVars, apiVars, usedIds, store, lst, chan, nextPid>>

\* handle_clear_points up to sessions.update, on the connection's bound session id
handle_clear_points(c) ==
    /\ conn[c].pc = "select"
    /\ frames' = frames + 1
    /\ IF conn[c].session_id = {}
         THEN send_error(c, "NotSubscribed", "ClearPoints") /\ conn' = conn
         ELSE IF BoundSession(c) = {}
           THEN send_error(c, "SessionNotFound", "ClearPoints") /\ conn' = conn
           ELSE /\ \E s \in conn[c].session_id : \E session \in BoundSession(c) :
                     conn' = [conn EXCEPT ![c] = Mutating(c, s, clear_points(session))]
                /\ out' = out
    /\ UNCHANGED <<hubVars, apiVars, usedIds, store, lst, chan, nextPid>>

\* handle_toggle_hide_points up to sessions.update, on the connection's bound session id
handle_toggle_hide_points(c) ==
    /\ conn[c].pc = "select"
    /\ frames' = frames + 1
    /\ IF conn[c].session_id = {}
         THEN send_error(c, "NotSubscribed", "ToggleHidePoints") /\ conn' = conn
         ELSE IF BoundSession(c) = {}
           THEN send_error(c, "SessionNotFound", "ToggleHidePoints") /\ conn' = conn
           ELSE /\ \E s \in conn[c].session_id : \E session \in BoundSession(c) :
                     conn' = [conn EXCEPT ![c] = Mutating(c, s, toggle_hide_points(session))]
                /\ out' = out
    /\ UNCHANGED <<hubVars, apiVars, usedIds, store, lst, chan, nextPid>>

\* Mutant: a frame the server has no use for is answered with an error.
handle_noop_answers(c) ==
    /\ conn[c].pc = "select"
    /\ frames' = frames + 1
    /\ send_error(c, "InvalidMessage", "Text")
    /\ UNCHANGED <<hubVars, apiVars, usedIds, store, conn, lst, chan, nextPid>>

\* handle_create_session, handle_add_participant, handle_session_update and
\* the frames that are no text: nothing happens.
handle_noop(c) ==
    /\ conn[c].pc = "select"
    /\ frames' = frames + 1
    /\ UNCHANGED <<hubVars, apiVars, usedIds, store, conn, lst, chan, out, nextPid>>

\* Mutant: a text that is no SessionMessage ends the connection's loop.
handle_invalid_text_closes(c) ==
    /\ conn[c].pc = "select"
    /\ frames' = frames + 1
    /\ send_error(c, "InvalidMessage", "Text")
    /\ conn' = [conn EXCEPT ![c].pc = "cleanup", ![c].closing = TRUE]
    /\ UNCHANGED <<hubVars, apiVars, usedIds, store, lst, chan, nextPid>>

\* handle_text_message on a text that is no SessionMessage
handle_invalid_text(c) ==
    /\ conn[c].pc = "select"
    /\ frames' = frames + 1
    /\ send_error(c, "InvalidMessage", "Text")
    /\ UNCHANGED <<hubVars, apiVars, usedIds, store, conn, lst, chan, nextPid>>

\* History: the participant ids of c that are in the store once the copy c
\* holds is stored.
Written(c) == conn[c].written \cup (conn[c].added \cap UNION {MemberIds(session) : session \in conn[c].cur})

\* In the specifications in which no step removes a session, contains_key and
\* insert are one step:
\* state.sessions.update(&session_id, &session) of a handler or of
\* cleanup_connection; a failure is InvalidMessage (skipped silently in cleanup).
handler_update(c) ==
    /\ conn[c].pc = "update"
    /\ \E session \in conn[c].cur : store' = store_update(store, conn[c].sid, session)
    /\ IF store[conn[c].sid] = {}
         THEN /\ conn' = [conn EXCEPT ![c] = Done(c)]
              /\ IF conn[c].closing THEN out' = out ELSE send_error(c, "InvalidMessage", "Update")
         ELSE /\ conn' = [conn EXCEPT ![c].pc = "pub_lookup", ![c].written = Written(c)]
              /\ out' = out
    /\ UNCHANGED <<hubVars, apiVars, usedIds, lst, chan, nextPid, frames>>

\* Mutant: the handler goes on to publish although the update failed.
handler_update_check_publishes(c) ==
    /\ conn[c].pc = "update"
    /\ IF store[conn[c].sid] = {}
         THEN /\ conn' = [conn EXCEPT ![c].pc = "pub_lookup"]
              /\ IF conn[c].closing THEN out' = out ELSE send_error(c, "InvalidMessage", "Update")
         ELSE /\ conn' = [conn EXCEPT ![c].pc = "update_insert"]
              /\ out' = out
    /\ UNCHANGED <<hubVars, apiVars, usedIds, store, lst, chan, nextPid, frames>>

\* sessions.update of a handler, where another task may remove the session:
\* self.sessions.contains_key(session_id); absent is the Err that the handler
\* turns into InvalidMessage.
handler_update_check(c) ==
    /\ conn[c].pc = "update"
    /\ IF store[conn[c].sid] = {}
         THEN /\ conn' = [conn EXCEPT ![c] = Done(c)]
              /\ IF conn[c].closing THEN out' = out ELSE send_error(c, "InvalidMessage", "Update")
         ELSE /\ conn' = [conn EXCEPT ![c].pc = "update_insert"]
              /\ out' = out
    /\ UNCHANGED <<hubVars, apiVars, usedIds, store, lst, chan, nextPid, frames>>

\* sessions.update: self.sessions.insert(session_id, session), the key having
\* been found a moment ago.
handler_update_insert(c) ==
    /\ conn[c].pc = "update_insert"
    /\ \E session \in conn[c].cur : store' = sessions_insert(store, conn[c].sid, session)
    /\ conn' = [conn EXCEPT ![c].pc = "pub_lookup", ![c].written = Written(c)]
    /\ UNCHANGED <<hubVars, apiVars, usedIds, lst, chan, out, nextPid, frames>>

\* Mutant: the waiters are woken at the lookup, before the mailbox write.
handler_publish_wake_first(c) ==
    /\ conn[c].pc = "pub_lookup"
    /\ IF notifiers[conn[c].sid] = {}
         THEN conn' = [conn EXCEPT ![c] = Done(c)] /\ notified' = notified
         ELSE /\ conn' = [conn EXCEPT ![c].pc = "pub_insert", ![c].found = notifiers[conn[c].sid]]
              /\ \E n \in notifiers[conn[c].sid] :
                    notified' = notify_waiters(notified, n, pubSeq + 1)
    /\ UNCHANGED <<notifiers, events, nextNotify, pubSeq, everSub, registered, apiVars, usedIds, store, lst, chan,
                   out, nextPid, frames>>

\* publish: the notifier lookup; None ends the publish.
handler_publish_lookup(c) ==
    /\ conn[c].pc = "pub_lookup"
    /\ IF notifiers[conn[c].sid] = {}
         THEN conn' = [conn EXCEPT ![c] = Done(c)]
         ELSE conn' = [conn EXCEPT ![c].pc = "pub_insert", ![c].found = notifiers[conn[c].sid]]
    /\ UNCHANGED <<hubVars, apiVars, usedIds, store, lst, chan, out, nextPid, frames>>

\* publish: the mailbox write of SessionUpdate(session)
handler_publish_insert(c) ==
    /\ conn[c].pc = "pub_insert"
    /\ pubSeq' = pubSeq + 1
    /\ \E session \in conn[c].cur :
         events' = publish_insert(events, conn[c].sid, [seq |-> pubSeq + 1, msg |-> session])
    /\ conn' = [conn EXCEPT ![c].pc = "pub_notify", ![c].seq = pubSeq + 1]
    /\ UNCHANGED <<notifiers, notified, nextNotify, everSub, registered, apiVars, usedIds, store, lst, chan, out,
                   nextPid, frames>>

\* publish: notify_waiters
handler_publish_notify(c) ==
    /\ conn[c].pc = "pub_notify"
    /\ \E n \in conn[c].found : notified' = notify_waiters(notified, n, conn[c].seq)
    /\ conn' = [conn EXCEPT ![c] = Done(c)]
    /\ UNCHANGED <<notifiers, events, nextNotify, pubSeq, everSub, registered, apiVars, usedIds, store, lst, chan,
                   out, nextPid, frames>>

\* handle_outbound_message: a message of the listener is written to the socket.
handle_outbound_message(c) ==
    /\ conn[c].pc = "select"
    /\ conn[c].outbound_rx
    /\ chan[c] # <<>>
    /\ out' = [out EXCEPT ![c] = Append(@, Head(chan[c]))]
    /\ chan' = [chan EXCEPT ![c] = Tail(@)]
    /\ UNCHANGED <<hubVars, apiVars, usedIds, store, conn, lst, nextPid, frames>>

\* A Close frame, a socket error or the end of the stream: the loop is left
\* and cleanup_connection starts; with a session id and a participant id
\* recorded and the session found, the participant is removed from a copy.
cleanup_connection(c) ==
    /\ conn[c].pc = "select"
    /\ IF conn[c].session_id # {} /\ conn[c].participant_id # {}
          /\ \E s \in conn[c].session_id : store_get(store, s) # {}
         THEN \E s \in conn[c].session_id, p \in conn[c].participant_id :
                \E session \in store_get(store, s) :
                   conn' = [conn EXCEPT ![c] =
                      [Mutating(c, s, remove_participant(session, p)) EXCEPT !.closing = TRUE]]
         ELSE conn' = [conn EXCEPT ![c].pc = "cleanup", ![c].closing = TRUE]
    /\ UNCHANGED <<hubVars, apiVars, usedIds, store, lst, chan, out, nextPid, frames>>

\* Mutant: disconnect cleanup also calls cleanup_session for the bound session.
cleanup_subscription_reaps(c) ==
    /\ conn[c].pc = "cleanup"
    /\ lst' = [lst EXCEPT ![c] =
                 IF conn[c].task_handle /\ lst[c].pc # "ended"
                   THEN [NoListener EXCEPT !.pc = "aborted"] ELSE @]
    /\ notified' = [notified EXCEPT ![c] = {}]
    /\ chan' = [chan EXCEPT ![c] = <<>>]
    /\ conn' = [conn EXCEPT ![c].pc = "closed", ![c].task_handle = FALSE,
                            ![c].outbound_rx = FALSE, ![c].participant_id = {},
                            ![c].closed_at = {pubSeq}]
    /\ UNCHANGED <<nextNotify, pubSeq, everSub, apiVars, usedIds, store, out,
                   nextPid, frames>>
    /\ notifiers' = [s \in SessionIds |-> IF s \in conn[c].session_id THEN {} ELSE notifiers[s]]
    /\ events' = [s \in SessionIds |-> IF s \in conn[c].session_id THEN {} ELSE events[s]]
    /\ registered' = registered \ conn[c].session_id

\* Mutant: the handle is dropped without aborting the listener task.
cleanup_subscription_detaches(c) ==
    /\ conn[c].pc = "cleanup"
    /\ chan' = [chan EXCEPT ![c] = <<>>]
    /\ conn' = [conn EXCEPT ![c].pc = "closed", ![c].task_handle = FALSE,
                            ![c].outbound_rx = FALSE, ![c].participant_id = {},
                            ![c].closed_at = {pubSeq}]
    /\ UNCHANGED <<hubVars, apiVars, usedIds, store, lst, out, nextPid, frames>>

\* ConnectionState::cleanup_subscription: the listener is aborted unless it
\* has finished, and the handle, the receiver and the participant id are
\* dropped. An aborted listener does nothing another task can see (its sends
\* fail, the receiver being gone), so it is modelled as ending at once.
cleanup_subscription(c) ==
    /\ conn[c].pc = "cleanup"
    /\ lst' = [lst EXCEPT ![c] =
                 IF conn[c].task_handle /\ lst[c].pc # "ended"
                   THEN [NoListener EXCEPT !.pc = "aborted"] ELSE @]
    /\ notified' = [notified EXCEPT ![c] = {}]
    /\ chan' = [chan EXCEPT ![c] = <<>>]
    /\ conn' = [conn EXCEPT ![c].pc = "closed", ![c].task_handle = FALSE,
                            ![c].outbound_rx = FALSE, ![c].participant_id = {},
                            ![c].closed_at = {pubSeq}]
    /\ UNCHANGED <<notifiers, events, nextNotify, pubSeq, everSub, registered, apiVars, usedIds, store, out,
                   nextPid, frames>>

\* The listener task: let mut notified = notifier.notified()
listener_first_notified(c) ==
    /\ lst[c].pc = "start"
    /\ \E n \in lst[c].n : notified' = [notified EXCEPT ![c] = {NewNotified(n)}]
    /\ lst' = [lst EXCEPT ![c].pc = "waiting", ![c].since = pubSeq]
    /\ UNCHANGED <<notifiers, events, nextNotify, pubSeq, everSub, registered, apiVars, usedIds, store, conn,
                   chan, out, nextPid, frames>>

\* The listener task: notified.await returns, the future having been completed.
listener_await(c) ==
    /\ lst[c].pc = "waiting"
    /\ \E f \in notified[c] :
         /\ f.fired > 0
         /\ lst' = [lst EXCEPT ![c].pc = "woke", ![c].woke = f.fired]
    /\ notified' = [notified EXCEPT ![c] = {}]
    /\ UNCHANGED <<notifiers, events, nextNotify, pubSeq, everSub, registered, apiVars, usedIds, store, conn,
                   chan, out, nextPid, frames>>

\* Mutant: the listener goes on to the mailbox without creating the next wait future.
listener_rearm_skip(c) ==
    /\ lst[c].pc = "woke"
    /\ lst' = [lst EXCEPT ![c].pc = "rearmed"]
    /\ UNCHANGED <<hubVars, apiVars, usedIds, store, conn, chan, out, nextPid, frames>>

\* The listener task: notified = notifier.notified(), before the mailbox is read
listener_rearm(c) ==
    /\ lst[c].pc = "woke"
    /\ \E n \in lst[c].n : notified' = [notified EXCEPT ![c] = {NewNotified(n)}]
    /\ lst' = [lst EXCEPT ![c].pc = "rearmed"]
    /\ UNCHANGED <<notifiers, events, nextNotify, pubSeq, everSub, registered, apiVars, usedIds, store, conn,
                   chan, out, nextPid, frames>>

\* Mutant: the listener takes the event out of the mailbox.
listener_consume_event(c) ==
    /\ lst[c].pc = "rearmed"
    /\ lst' = [lst EXCEPT ![c].msg = consume_event(events, lst[c].sid),
                          ![c].pc = IF consume_event(events, lst[c].sid) = {} THEN "waiting" ELSE "got",
                          ![c].woke = IF consume_event(events, lst[c].sid) = {} THEN 0 ELSE @]
    /\ events' = events_remove(events, lst[c].sid)
    /\ UNCHANGED <<notifiers, notified, nextNotify, pubSeq, everSub, registered, apiVars, usedIds, store,
                   conn, chan, out, nextPid, frames>>

\* The listener task: pub_sub.get_event(&session_id); None goes back to waiting.
listener_get_event(c) ==
    /\ lst[c].pc = "rearmed"
    /\ lst' = [lst EXCEPT ![c].msg = get_event(events, lst[c].sid),
                          ![c].pc = IF get_event(events, lst[c].sid) = {} THEN "waiting" ELSE "got",
                          ![c].woke = IF get_event(events, lst[c].sid) = {} THEN 0 ELSE @]
    /\ UNCHANGED <<hubVars, apiVars, usedIds, store, conn, chan, out, nextPid, frames>>

\* The listener task: outbound_tx.send(json); the loop is left when the
\* receiver is gone.
listener_send(c) ==
    /\ lst[c].pc = "got"
    /\ IF conn[c].outbound_rx
         THEN /\ \E e \in lst[c].msg : chan' = [chan EXCEPT ![c] = Append(@, ToJson(e))]
              /\ lst' = [lst EXCEPT ![c].pc = "waiting", ![c].msg = {}, ![c].woke = 0]
         ELSE /\ chan' = chan
              /\ lst' = [lst EXCEPT ![c] = [NoListener EXCEPT !.pc = "ended"]]
    /\ notified' = IF conn[c].outbound_rx THEN notified ELSE [notified EXCEPT ![c] = {}]
    /\ UNCHANGED <<notifiers, events, nextNotify, pubSeq, everSub, registered, apiVars, usedIds, store, conn,
                   out, nextPid, frames>>

\* PubSub::new, SessionServiceInMemory::new, and no connection accepted yet.
Init ==
    /\ notifiers = [s \in SessionIds |-> {}]
    /\ events = [s \in SessionIds |-> {}]
    /\ notified = [w \in AllHubTasks \cup AllConns |-> {}]
    /\ nextNotify = 0
    /\ pubSeq = 0
    /\ everSub = {}
    /\ registered = {}
    /\ taken = [k \in 1..MaxPublishes |-> 0]
    /\ last = NoOp
    /\ task = [t \in AllHubTasks |-> IdleTask]
    /\ store = [s \in SessionIds |-> {}]
    /\ conn = [c \in AllConns |-> NewConnection]
    /\ lst = [c \in AllConns |-> NoListener]
    /\ chan = [c \in AllConns |-> <<>>]
    /\ out = [c \in AllConns |-> <<>>]
    /\ nextPid = 0
    /\ usedIds = {}
    /\ frames = 0

HubInit == Init

HubNext ==
    \E t \in HubTasks :
        \/ \E s \in HubSessionIds : hub_subscribe(t, s)
        \/ \E s \in HubSessionIds, m \in HubMsgs : hub_publish(t, s, m)
        \/ hub_publish_lookup(t)
        \/ hub_publish_insert(t)
        \/ hub_publish_notify(t)
        \/ \E s \in HubSessionIds : hub_get_event(t, s)
        \/ \E s \in HubSessionIds : hub_consume_event(t, s)
        \/ \E s \in HubSessionIds : hub_cleanup_session(t, s)
        \/ \E s \in HubSessionIds : hub_has_event(t, s)
        \/ hub_session_count(t)
        \/ hub_notified(t)
        \/ hub_notified_await(t)

SpecHub == HubInit /\ [][HubNext]_vars

\* Subscribers that wait on their handles, a publisher, and cleanup_session.
WakeNext ==
    \/ \E t \in HubTasks :
          \/ \E s \in HubSessionIds : hub_subscribe(t, s)
          \/ \E s \in HubSessionIds : hub_cleanup_session(t, s)
          \/ hub_notified(t)
          \/ hub_notified_await(t)
    \/ \E s \in HubSessionIds, m \in HubMsgs : hub_publish(Publisher, s, m)
    \/ hub_publish_lookup(Publisher)
    \/ hub_publish_insert(Publisher)
    \/ hub_publish_notify(Publisher)

SpecWake == HubInit /\ [][WakeNext]_vars

\* Two sessions in the hub: one task subscribes, cleans up and reads while
\* the other publishes the session's update.
CleanNext ==
    \/ \E s \in SessionIds : hub_subscribe("t1", s)
    \/ \E s \in SessionIds : hub_cleanup_session("t1", s)
    \/ \E s \in SessionIds : hub_publish("t2", s, NewSession(s))
    \/ hub_publish_lookup("t2")
    \/ hub_publish_insert("t2")
    \/ hub_publish_notify("t2")
    \/ \E s \in SessionIds : hub_get_event("t1", s)
    \/ \E s \in SessionIds : hub_consume_event("t1", s)
    \/ \E s \in SessionIds : hub_has_event("t1", s)
    \/ hub_session_count("t1")

SpecClean == HubInit /\ [][CleanNext]_vars

\* The hub calls with the acquisition of their locks: every call but
\* cleanup_session takes one lock for one statement or block;
\* cleanup_session takes the events write lock and then, holding it, the
\* notifiers write lock.
LockNext ==
    \E t \in HubTasks :
        \/ \E s \in HubSessionIds : CanWrite(t, "notifiers") /\ hub_subscribe(t, s)
        \/ \E s \in HubSessionIds, m \in HubMsgs : hub_publish(t, s, m)
        \/ CanRead(t, "notifiers") /\ hub_publish_lookup(t)
        \/ CanWrite(t, "events") /\ hub_publish_insert(t)
        \/ hub_publish_notify(t)
        \/ \E s \in HubSessionIds : CanRead(t, "events") /\ hub_get_event(t, s)
        \/ \E s \in HubSessionIds : CanWrite(t, "events") /\ hub_consume_event(t, s)
        \/ \E s \in HubSessionIds : CanRead(t, "events") /\ hub_has_event(t, s)
        \/ CanRead(t, "notifiers") /\ hub_session_count(t)
        \/ \E s \in HubSessionIds : hub_cleanup_session_lock(t, s)
        \/ hub_cleanup_session_remove(t)

SpecLock == HubInit /\ [][LockNext]_vars

\* Tasks calling the session service concurrently.
StoreNext ==
    \E t \in HubTasks :
        \/ \E s \in SessionIds : sessions_create(t, s)
        \/ \E s \in SessionIds : sessions_get(t, s)
        \/ \E s \in SessionIds : \E session \in UpdateValues(s) : sessions_update(t, s, session)
        \/ sessions_update_insert(t)
        \/ \E s \in SessionIds, name \in Names : sessions_join(t, s, name)
        \/ \E s \in SessionIds, p \in 1..MaxParticipants : sessions_leave(t, s, p)
        \/ \E s \in SessionIds : sessions_end(t, s)

SpecStore == Init /\ [][StoreNext]_vars

\* The steps of the tasks of one connection: its handler's and its listener's.
HandlerStep(c) ==
    \/ setup_subscription(c)
    \/ handler_update(c)
    \/ handler_publish_lookup(c)
    \/ handler_publish_insert(c)
    \/ handler_publish_notify(c)
    \/ handle_outbound_message(c)
    \/ cleanup_subscription(c)

ListenerStep(c) ==
    \/ listener_first_notified(c)
    \/ listener_await(c)
    \/ listener_rearm(c)
    \/ listener_get_event(c)
    \/ listener_send(c)

\* An inbound frame is taken from the socket and dispatched.
Frame(c) ==
    \/ \E s \in SessionIds, name \in Names : handle_join_session(c, s, name)
    \/ \E s \in SessionIds : handle_subscribe_to_session(c, s)
    \/ \E s \in SessionIds, p \in 0..nextPid : handle_remove_participant(c, s, p)
    \/ \E s \in SessionIds, p \in 0..nextPid, v \in Points : handle_point_session(c, s, p, v)
    \/ \E topic \in Topics : handle_set_topic(c, topic)
    \/ handle_clear_points(c)
    \/ handle_toggle_hide_points(c)
    \/ handle_noop(c)
    \/ handle_invalid_text(c)

Next ==
    \/ \E s \in SessionIds : http_create_session(s)
    \/ \E c \in Conns : frames < MaxFrames /\ Frame(c)
    \/ \E c \in Conns : HandlerStep(c)
    \/ \E c \in Conns : ListenerStep(c)
    \/ \E c \in Conns : cleanup_connection(c)

Spec == Init /\ [][Next]_vars

\* The walk-through of two clients: the session is created over HTTP, A and B
\* subscribe, A joins and then votes; no connection closes.
HandlerRun(c) ==
    \/ setup_subscription(c)
    \/ handler_update(c)
    \/ handler_publish_lookup(c)
    \/ handler_publish_insert(c)
    \/ handler_publish_notify(c)
    \/ handle_outbound_message(c)

ScenarioNext ==
    \/ http_create_session("S1")
    \/ \E c \in Conns :
          store["S1"] # {} /\ ~conn[c].task_handle /\ handle_subscribe_to_session(c, "S1")
    \/ \E name \in Names :
          /\ conn["A"].task_handle /\ conn["A"].participant_id = {}
          /\ handle_join_session("A", "S1", name)
    \/ \E p \in conn["A"].participant_id, v \in Points :
          /\ pubSeq = 1
          /\ handle_point_session("A", "S1", p, v)
    \/ \E c \in Conns : HandlerRun(c)
    \/ \E c \in Conns : ListenerStep(c)

\* tokio schedules every spawned task that can run: the handler of a
\* connection and its listener each take their next step eventually. Nothing
\* obliges a client to send a frame.
SpecScenario ==
    /\ Init
    /\ [][ScenarioNext]_vars
    /\ \A c \in Conns : WF_vars(HandlerRun(c)) /\ WF_vars(ListenerStep(c))

\* A vote: A and B join the session, A subscribes to it, and once both
\* participants are stored each sends one PointSession for its own id, the two
\* handlers running concurrently; after that A sends ClearPoints.
VoteFrames == 1 + 2 * Cardinality(Conns)

VoteNext ==
    \/ http_create_session("S1")
    \/ \E c \in Conns, name \in Names :
          /\ store["S1"] # {} /\ conn[c].added = {}
          /\ handle_join_session(c, "S1", name)
    \/ frames = Cardinality(Conns) /\ handle_subscribe_to_session("A", "S1")
    \/ \E c \in Conns : \E p \in conn[c].added, v \in Points \ {{}} :
          /\ conn["A"].task_handle /\ frames < VoteFrames
          /\ \A x \in store["S1"] :
                /\ \A d \in Conns : conn[d].added # {} /\ conn[d].added \subseteq MemberIds(x)
                /\ p \notin PointKeys(x)
          /\ handle_point_session(c, "S1", p, v)
    \/ frames = VoteFrames /\ handle_clear_points("A")
    \/ \E c \in Conns : HandlerRun(c)
    \/ \E c \in Conns : ListenerStep(c)

SpecVote == Init /\ [][VoteNext]_vars

\* Two observers and a participant: A and B subscribe to the session, P joins
\* it (having subscribed itself or not) and then closes its socket.
LeaveNext ==
    \/ http_create_session("S1")
    \/ \E c \in AllConns :
          store["S1"] # {} /\ ~conn[c].task_handle /\ handle_subscribe_to_session(c, "S1")
    \/ \E name \in Names :
          /\ store["S1"] # {} /\ conn[Leaver].added = {}
          /\ handle_join_session(Leaver, "S1", name)
    \/ conn[Leaver].added # {} /\ cleanup_connection(Leaver)
    \/ \E c \in AllConns : HandlerStep(c)
    \/ \E c \in AllConns : ListenerStep(c)

\* Every handler and every listener task takes its next step eventually.
SpecLeave ==
    /\ Init
    /\ [][LeaveNext]_vars
    /\ \A c \in AllConns : WF_vars(HandlerStep(c)) /\ WF_vars(ListenerStep(c))

\* Two clients of one session, either of which may close its socket at any
\* time: the session is created over HTTP, A and B subscribe, A joins.
CloseNext ==
    \/ http_create_session("S1")
    \/ \E c \in Conns :
          store["S1"] # {} /\ ~conn[c].task_handle /\ handle_subscribe_to_session(c, "S1")
    \/ \E name \in Names :
          /\ store["S1"] # {} /\ conn["A"].added = {}
          /\ handle_join_session("A", "S1", name)
    \/ \E c \in Conns : cleanup_connection(c)
    \/ \E c \in Conns : HandlerStep(c)
    \/ \E c \in Conns : ListenerStep(c)

\* Every handler and every listener task takes its next step eventually.
SpecClose ==
    /\ Init
    /\ [][CloseNext]_vars
    /\ \A c \in Conns : WF_vars(HandlerStep(c)) /\ WF_vars(ListenerStep(c))

\* The inbound frames of this scenario that were CreateSession,
\* AddParticipant, SessionUpdate or non-text frames: all frames but the
\* SubscribeToSession of each bound connection and the JoinSession of A.
NoopCount ==
    frames - Cardinality({c \in Conns : conn[c].session_id # {}})
           - Cardinality({c \in Conns : conn[c].added # {}})

\* Two clients that subscribe, one of which joins, and that send frames the
\* server ignores at any time.
NoopNext ==
    \/ http_create_session("S1")
    \/ \E c \in Conns :
          store["S1"] # {} /\ ~conn[c].task_handle /\ handle_subscribe_to_session(c, "S1")
    \/ \E name \in Names :
          /\ store["S1"] # {} /\ conn["A"].added = {}
          /\ handle_join_session("A", "S1", name)
    \/ \E c \in Conns : NoopCount < MaxFrames /\ handle_noop(c)
    \/ \E c \in Conns : HandlerRun(c)
    \/ \E c \in Conns : ListenerStep(c)

SpecNoop == Init /\ [][NoopNext]_vars

\* A subscribes and joins and votes once for itself; B sends PointSession
\* frames for participant ids that are not in the session's participant list.
PointNext ==
    \/ http_create_session("S1")
    \/ store["S1"] # {} /\ ~conn["A"].task_handle /\ handle_subscribe_to_session("A", "S1")
    \/ \E name \in Names :
          /\ store["S1"] # {} /\ conn["A"].added = {}
          /\ handle_join_session("A", "S1", name)
    \/ \E p \in conn["A"].added, v \in Points \ {{}} :
          /\ \A x \in store["S1"] : p \in MemberIds(x) /\ p \notin PointKeys(x)
          /\ handle_point_session("A", "S1", p, v)
    \/ \E p \in 0..MaxParticipants, v \in Points \ {{}} :
          /\ frames < MaxFrames + 1
          /\ \E x \in store["S1"] : p \notin MemberIds(x)
          /\ handle_point_session("B", "S1", p, v)
    \/ \E c \in Conns : HandlerRun(c)
    \/ ListenerStep("A")

SpecPoint == Init /\ [][PointNext]_vars

\* The handler steps where sessions.update is taken in its two steps.
EndHandlerStep(c) ==
    \/ setup_subscription(c)
    \/ handler_update_check(c)
    \/ handler_update_insert(c)
    \/ handler_publish_lookup(c)
    \/ handler_publish_insert(c)
    \/ handler_publish_notify(c)
    \/ handle_outbound_message(c)

\* The frames B sends in the scenario below.
EndFrame(c) ==
    \/ \E name \in Names : handle_join_session(c, "S1", name)
    \/ handle_subscribe_to_session(c, "S1")
    \/ \E p \in 1..MaxParticipants : handle_remove_participant(c, "S1", p)
    \/ \E p \in 1..MaxParticipants : handle_point_session(c, "S1", p, {5})
    \/ handle_set_topic(c, "x")
    \/ handle_clear_points(c)
    \/ handle_toggle_hide_points(c)
    \/ handle_invalid_text(c)

\* A session that is ended while it is in use: A subscribes to it and
\* listens, B sends frames, and a task of the server calls sessions.end.
EndNext ==
    \/ http_create_session("S1")
    \/ store["S1"] # {} /\ ~conn["A"].task_handle /\ handle_subscribe_to_session("A", "S1")
    \/ conn["A"].task_handle /\ frames < MaxFrames /\ EndFrame("B")
    \/ sessions_end("t1", "S1")
    \/ \E c \in Conns : EndHandlerStep(c)
    \/ \E c \in Conns : ListenerStep(c)

SpecEnd == Init /\ [][EndNext]_vars

\* ------------------------------------------------------------------ claims

\* The listener of c holds a wait future or is between two of them.
Armed(c) == lst[c].pc \in {"waiting", "woke", "rearmed", "got"}

\* The SessionUpdate frames written to the socket of c, in order.
Received(c) == SelectSeq(out[c], LAMBDA f : f.tag = "SessionUpdate")

\* The SessionUpdate messages the listener of c has sent over its channel so
\* far, in order: those written to the socket and those still queued.
Forwarded(c) == Received(c) \o chan[c]

\* No handler is between its store read and the end of its publish, no
\* listener has a completed future or an event in hand, no channel holds a message.
Quiescent ==
    /\ \A c \in Conns : conn[c].pc \in {"select", "closed"} /\ chan[c] = <<>>
    /\ \A c \in Conns : lst[c].pc \in {"none", "waiting", "ended", "aborted"}
    /\ \A c \in Conns : \A f \in notified[c] : f.fired = 0

\* C1: in the walk-through, once A's JoinSession has recorded the new
\* participant p and the listeners of A and B were armed before the mailbox
\* write of that join, each of the two sockets eventually receives a
\* SessionUpdate whose members contain p; and once the store holds the vote
\* (p, v) of the following PointSession, with both listeners armed before that
\* vote's mailbox write, each socket eventually receives a SessionUpdate whose
\* point map maps p to v.
C1_JoinThenPointReachBoth ==
    \A c \in Conns, p \in 1..2 :
      /\ (conn["A"].participant_id = {p} /\ \A d \in Conns : Armed(d) /\ lst[d].since = 0)
           ~> (\E i \in DOMAIN Received(c) : \E session \in Received(c)[i].session :
                  p \in MemberIds(session))
      /\ \A v \in Points :
           ((\E session \in store["S1"] : [id |-> p, points |-> v] \in session.current_points)
              /\ \A d \in Conns : Armed(d) /\ lst[d].since <= 1)
           ~> (\E i \in DOMAIN Received(c) : \E session \in Received(c)[i].session :
                  [id |-> p, points |-> v] \in session.current_points)

C1_Witness ==
    /\ \A d \in Conns : lst[d].since = 0
    /\ \A c \in Conns : \E i \in DOMAIN Received(c) : \E session \in Received(c)[i].session :
          /\ MemberIds(session) = {1}
          /\ [id |-> 1, points |-> {5}] \in session.current_points

\* C2: for every mailbox write k made after the listener of c created its
\* first wait future, the listener eventually sends over its channel a
\* snapshot of write k or of a later one.
C2_NoLostWakeup ==
    \A c \in Conns, k \in 1..2 :
      (Armed(c) /\ lst[c].since < k /\ pubSeq >= k)
        ~> (\E i \in DOMAIN Forwarded(c) : Forwarded(c)[i].seq >= k)

\* The second publish fired between the listener's wake-up and its mailbox
\* read, and the listener has forwarded the snapshot of the second publish.
C2_Witness ==
    \E c \in Conns :
      /\ lst[c].pc = "waiting" /\ lst[c].since = 0
      /\ Len(Forwarded(c)) = 1 /\ Forwarded(c)[1].seq = 2
      /\ \A d \in Conns : conn[d].pc = "select"

\* C3: a listener that was woken by the publish of mailbox write k finds, up
\* to and at its following get_event, a mailbox entry of write k or of a later
\* write (no task of the server calls consume_event or cleanup_session).
C3_WokenListenerFindsEvent ==
    \A c \in Conns :
      /\ lst[c].pc \in {"woke", "rearmed"} =>
            /\ lst[c].woke > 0
            /\ get_event(events, lst[c].sid) # {}
            /\ \A e \in get_event(events, lst[c].sid) : e.seq >= lst[c].woke
      /\ lst[c].pc = "got" => \E e \in lst[c].msg : e.seq >= lst[c].woke /\ lst[c].woke > 0

\* A listener woken by one publish has read the event of a later one.
C3_Witness ==
    \E c \in Conns : lst[c].pc = "got" /\ \E e \in lst[c].msg : e.seq > lst[c].woke

\* C4: the snapshots a listener has sent down its connection never contain the
\* event of one mailbox write twice.
C4_NoDuplicateForward ==
    \A c \in Conns : \A i, j \in DOMAIN Forwarded(c) :
        Forwarded(c)[i].seq = Forwarded(c)[j].seq => i = j

\* C5: when all handlers have finished and all listeners have drained, the
\* mailbox event of a session, if any, and the last snapshot received by every
\* connection whose listener waits on the session equal the stored session.
C5_BroadcastsMatchStore ==
    Quiescent =>
      \A s \in SessionIds :
        /\ \A e \in events[s] : store[s] = {e.msg}
        /\ \A c \in Conns :
             (lst[c].pc = "waiting" /\ lst[c].sid = s /\ Received(c) # <<>>)
                => Received(c)[Len(Received(c))].session = store[s]

\* C11: a cleanup_session(s) step empties the notifier entry and the mailbox
\* of s, leaves the entries of every other session as they were and lowers
\* session_count by one exactly when s was registered; until the next hub call
\* that returns (a subscribe or a mailbox write among them) s has no notifier
\* and no event; has_event and get_event called next on s return false and
\* none; and a publish whose lookup for s finds no notifier stores nothing and
\* wakes nobody.
C11_CleanupRemovesOnlyThatSession ==
    /\ [](last.op = "cleanup_session" =>
             /\ notifiers[last.sid] = {} /\ events[last.sid] = {}
             /\ ~has_event(events, last.sid) /\ get_event(events, last.sid) = {})
    /\ [][\A s \in SessionIds :
              (\E t \in HubTasks : hub_cleanup_session(t, s)) =>
                 /\ notifiers'[s] = {} /\ events'[s] = {}
                 /\ \A x \in SessionIds \ {s} :
                       notifiers'[x] = notifiers[x] /\ events'[x] = events[x]
                 /\ session_count(notifiers') + (IF notifiers[s] # {} THEN 1 ELSE 0)
                       = session_count(notifiers)]_vars
    /\ [][(last.op = "cleanup_session" /\ last' # last /\ last'.sid = last.sid) =>
              /\ last'.op = "has_event" => ~last'.flag
              /\ last'.op = "get_event" => last'.ev = {}
              /\ last'.op = "publish_dropped" =>
                    events' = events /\ notified' = notified /\ notifiers' = notifiers]_vars

\* cleanup_session has just removed a registered session that had an event,
\* while the other session keeps its notifier and its event.
C11_Witness ==
    /\ last.op = "cleanup_session"
    /\ last.sid \in everSub
    /\ pubSeq >= 2
    /\ \E x \in SessionIds \ {last.sid} : notifiers[x] # {} /\ events[x] # {}

\* C12: session_count is the number of session ids subscribed and not cleaned
\* up since, and the value session_count returns is that number; the notifier
\* map is changed by no step other than a subscribe or a cleanup_session
\* (publish, get_event, consume_event and has_event leave it alone); and
\* session_count, has_event and get_event change neither the notifier map, the
\* mailboxes nor any wait future.
C12_SessionCountTracksSubscriptions ==
    /\ [](/\ session_count(notifiers) = Cardinality(registered)
          /\ last.op = "session_count" => last.cnt = Cardinality(registered))
    /\ [][notifiers' # notifiers =>
              \E t \in HubTasks, s \in SessionIds :
                  hub_subscribe(t, s) \/ hub_cleanup_session(t, s)]_vars
    /\ [][(\/ \E s \in SessionIds : hub_get_event("t1", s) \/ hub_has_event("t1", s)
           \/ hub_session_count("t1"))
             => UNCHANGED <<notifiers, events, notified>>]_vars

\* session_count returned 1 with one of two subscribed sessions cleaned up and
\* an event published in between.
C12_Witness ==
    /\ last.op = "session_count" /\ last.cnt = 1
    /\ Cardinality(everSub) = 2
    /\ pubSeq >= 1

\* C13: a connection whose JoinSession has succeeded (a participant id was
\* generated for it and its handler is back at the top of its loop) has a
\* session id bound and a running listener task with its channel.
C13_JoinBindsAndSubscribes ==
    \A c \in Conns :
      (conn[c].added # {} /\ conn[c].pc = "select") =>
         /\ conn[c].session_id # {}
         /\ conn[c].task_handle /\ conn[c].outbound_rx
         /\ lst[c].pc \in {"start", "waiting", "woke", "rearmed", "got"}

\* C14: of the participants an open connection has added with its JoinSession
\* frames, at most one is a member of a session in the Session Store.
C14_OneParticipantPerConnection ==
    \A c \in Conns :
      conn[c].pc # "closed" =>
         Cardinality({p \in conn[c].added :
                        \E s \in SessionIds : \E session \in store[s] :
                            p \in MemberIds(session)}) <= 1

\* C15: once a connection is closed (its disconnect cleanup has run), no
\* participant it added is a member of any session in the Session Store.
C15_CleanupRemovesParticipant ==
    \A c \in Conns :
      conn[c].pc = "closed" =>
         \A p \in conn[c].added : \A s \in SessionIds : \A session \in store[s] :
             p \notin MemberIds(session)

\* C16: when the connection of the only participant of the session has
\* closed, with the listeners of both observers armed since before any
\* publish, each observer eventually receives a SessionUpdate whose
\* participant list is empty.
C16_ObserversSeeDeparture ==
    \A c \in Conns :
      (/\ conn[Leaver].pc = "closed" /\ conn[Leaver].added # {}
       /\ \A d \in Conns : Armed(d) /\ lst[d].since = 0)
        ~> (\E i \in DOMAIN Received(c) : \E session \in Received(c)[i].session :
               session.members = <<>>)

\* C17: a SetTopic, ClearPoints or ToggleHidePoints frame handled on a
\* connection with no bound session id appends the NotSubscribed error text
\* to that connection's socket and to no other, leaves the Session Store, the
\* mailboxes, the wait futures, the channels and the listeners as they were,
\* starts no update and no publish, and leaves the connection open at the top
\* of its loop.
C17_UnboundActionIsNotSubscribed ==
    [][\A c \in Conns :
          (/\ conn[c].session_id = {}
           /\ \/ \E topic \in Topics : handle_set_topic(c, topic)
              \/ handle_clear_points(c)
              \/ handle_toggle_hide_points(c))
            => /\ \E on \in {"SetTopic", "ClearPoints", "ToggleHidePoints"} :
                    out'[c] = Append(out[c], ErrorText("NotSubscribed", on))
               /\ \A d \in AllConns \ {c} : out'[d] = out[d]
               /\ UNCHANGED <<store, events, notifiers, notified, pubSeq, chan, lst>>
               /\ conn' = conn /\ conn[c].pc = "select"]_vars

\* A connection that never joined nor subscribed was answered NotSubscribed to
\* its SetTopic, and a subscribed connection's listener received nothing.
C17_Witness ==
    \E c \in Conns, d \in Conns :
      /\ c # d
      /\ out[c] = <<ErrorText("NotSubscribed", "SetTopic")>>
      /\ conn[c].pc = "select" /\ conn[c].session_id = {} /\ conn[c].added = {}
      /\ ~conn[c].task_handle /\ ~conn[c].closing
      /\ conn[d].task_handle /\ lst[d].pc = "waiting" /\ chan[d] = <<>> /\ out[d] = <<>>

\* C18: a SubscribeToSession frame handled on a connection that has a listener
\* task is answered AlreadySubscribed and changes neither the connection's
\* state, the listeners, the channels nor the hub; a bound session id never
\* changes; and a listener is spawned for a connection only when it has none.
C18_SecondSubscribeIsRejected ==
    [][\A c \in Conns :
          /\ (conn[c].task_handle /\ \E s \in SessionIds : handle_subscribe_to_session(c, s))
               => /\ out'[c] = Append(out[c], ErrorText("AlreadySubscribed", "SubscribeToSession"))
                  /\ UNCHANGED <<conn, lst, chan, notifiers, notified, events>>
          /\ conn[c].session_id # {} => conn'[c].session_id = conn[c].session_id
          /\ setup_subscription(c) => lst[c].pc = "none" /\ ~conn[c].task_handle]_vars

\* A subscribed connection whose listener waits was answered AlreadySubscribed.
C18_Witness ==
    \E c \in Conns :
      /\ out[c] # <<>>
      /\ out[c][Len(out[c])] = ErrorText("AlreadySubscribed", "SubscribeToSession")
      /\ conn[c].task_handle /\ conn[c].session_id # {} /\ lst[c].pc = "waiting"

\* C19: a SubscribeToSession frame for a session id absent from the Session
\* Store, handled on a connection without a listener, is answered
\* SessionNotFound; the connection keeps no session id, no listener and no
\* channel, and the hub is not touched: no notifier is registered for the id.
C19_SubscribeToAbsentSession ==
    [][\A c \in Conns, s \in SessionIds :
          (~conn[c].task_handle /\ store[s] = {} /\ handle_subscribe_to_session(c, s))
            => /\ out'[c] = Append(out[c], ErrorText("SessionNotFound", "SubscribeToSession"))
               /\ conn' = conn /\ conn[c].session_id = {} /\ ~conn[c].outbound_rx
               /\ lst' = lst /\ lst[c].pc = "none"
               /\ UNCHANGED <<notifiers, everSub, registered, notified, events, chan>>]_vars

\* A connection's subscribe was answered SessionNotFound and it is unbound,
\* with a session id that has no notifier.
C19_Witness ==
    \E c \in Conns :
      /\ out[c] # <<>>
      /\ out[c][Len(out[c])] = ErrorText("SessionNotFound", "SubscribeToSession")
      /\ conn[c].pc = "select" /\ conn[c].session_id = {} /\ lst[c].pc = "none"
      /\ \E s \in SessionIds : store[s] = {} /\ notifiers[s] = {}

\* C20: a step that writes an error text (SessionNotFound, InvalidMessage,
\* AlreadySubscribed or NotSubscribed) to a connection's socket leaves the
\* connection's state as it was before the frame, with the handler at the top
\* of its loop and not closing, its listener and its channel untouched: the
\* next frame is handled as if the failed one had not been sent.
C20_ProtocolErrorsAreRecoverable ==
    [][\A c \in Conns :
          (/\ Len(out'[c]) = Len(out[c]) + 1
           /\ out'[c][Len(out'[c])].tag \in
                 {"SessionNotFound", "InvalidMessage", "AlreadySubscribed", "NotSubscribed"})
            => /\ conn'[c] = conn[c]
               /\ conn'[c].pc = "select" /\ ~conn'[c].closing
               /\ lst'[c] = lst[c] /\ chan'[c] = chan[c]]_vars

\* A connection was answered NotSubscribed, then subscribed, and then received
\* the SessionUpdate of a later publish.
C20_Witness ==
    \E c \in Conns :
      /\ Len(out[c]) = 2
      /\ out[c][1].tag = "NotSubscribed"
      /\ out[c][2].tag = "SessionUpdate"
      /\ conn[c].pc = "select" /\ conn[c].task_handle

\* C6: a publish that finds no notifier registered for its session id changes
\* neither hub map nor any wait future and ends the call; the mailbox of a
\* session id that was never subscribed is empty; and a get_event that directly
\* follows the first subscribe ever made for a session id returns no event.
C6_PublishWithoutSubscriberIsNoOp ==
    /\ [](\A s \in SessionIds : s \notin everSub => events[s] = {})
    /\ [][/\ \A t \in HubTasks :
               (task[t].pc = "pub_lookup" /\ task'[t].pc # "pub_lookup" /\ notifiers[task[t].sid] = {})
                  => /\ task'[t].pc = "idle"
                     /\ notifiers' = notifiers /\ events' = events /\ notified' = notified
          /\ (last.op = "subscribe" /\ last.flag /\ last'.op = "get_event" /\ last'.sid = last.sid)
                  => last'.ev = {}]_vars

C6_Witness ==
    /\ last.op = "publish_dropped"
    /\ last.sid \notin everSub
    /\ events[last.sid] = {}

\* C7: the handles that subscribe returned for one session id since the last
\* cleanup_session of that id all name the same Notify, which is the registered
\* one; and the notify_waiters of a publish that found the registered Notify
\* completes the wait future of every task waiting on such a handle.
C7_SubscribeSharesNotifier ==
    /\ [](\A t \in AllHubTasks : \A h \in task[t].handle :
             ~h.stale => notifiers[h.sid] = {h.n})
    /\ [][\A t \in AllHubTasks :
             (task[t].pc = "pub_notify" /\ task'[t].pc = "idle" /\ task[t].found = notifiers[task[t].sid])
                => \A u \in HubTasks : \A h \in task[u].handle :
                      (task[u].pc = "waiting" /\ h.sid = task[t].sid /\ ~h.stale)
                         => /\ notified'[u] # {}
                            /\ \A f \in notified'[u] : f.fired >= task[t].seq]_vars

C7_Witness ==
    /\ \A t \in HubTasks :
          /\ task[t].pc = "waiting"
          /\ \E h \in task[t].handle : ~h.stale
          /\ \E f \in notified[t] : f.fired > 0
    /\ task[Publisher].pc = "idle"
    /\ last.op = "publish"

\* C8: a mailbox write replaces what the mailbox held, and get_event returns
\* the current mailbox content, which is the event of the latest mailbox write
\* (or nothing, once consume_event or cleanup_session has removed it).
C8_MailboxHoldsLatest ==
    /\ \A s \in HubSessionIds : \A e \in events[s] : e.seq = pubSeq
    /\ last.op = "publish_insert" => events[last.sid] = last.ev
    /\ last.op = "get_event" =>
          /\ last.ev = events[last.sid]
          /\ \A e \in last.ev : e.seq = pubSeq

C8_Witness ==
    /\ last.op = "get_event"
    /\ \E e \in last.ev : e.seq = 2

\* C9: with no other hub call in between (last is the latest completed step of
\* a hub call, and it changes with every call that returns something else or
\* to someone else): a get_event after a publish's mailbox
\* write returns that event; a get_event after a get_event returns the same and
\* leaves the mailbox as it was; a consume_event after a get_event returns what
\* the get_event returned and empties the mailbox; after a consume_event,
\* get_event and consume_event return none and has_event is false.
C9_GetKeepsConsumeRemoves ==
    [][(last' # last /\ last'.sid = last.sid) =>
         /\ (last.op = "publish_insert" /\ last'.op = "get_event") => last'.ev = last.ev
         /\ (last.op = "publish_insert" /\ last'.op = "has_event") => last'.flag
         /\ (last.op = "get_event" /\ last'.op = "get_event")
               => (last'.ev = last.ev /\ events' = events)
         /\ (last.op = "get_event" /\ last'.op = "consume_event")
               => (last'.ev = last.ev /\ events'[last.sid] = {})
         /\ (last.op = "consume_event" /\ last'.op \in {"get_event", "consume_event"})
               => last'.ev = {}
         /\ (last.op = "consume_event" /\ last'.op = "has_event") => ~last'.flag]_vars

C9_Witness ==
    /\ last.op = "get_event"
    /\ last.ev = {}
    /\ \E k \in 1..MaxPublishes : taken[k] = 1 /\ k = pubSeq

\* C10: no published event is returned by more than one consume_event, and a
\* consume_event leaves no mailbox entry behind.
C10_ConsumeExactlyOnce ==
    /\ \A k \in 1..MaxPublishes : taken[k] <= 1
    /\ last.op = "consume_event" =>
          /\ events[last.sid] = {}
          /\ \A e \in last.ev : taken[e.seq] = 1

C10_Witness ==
    /\ pubSeq = 1
    /\ taken[1] = 1
    /\ last.op = "consume_event"
    /\ last.ev = {}

\* C21: a step of a connection's termination (cleanup_connection and the
\* update, publish and cleanup_subscription that follow it) changes no other
\* connection's state, listener, channel or socket, leaves every session the
\* connection is not bound to unchanged, and changes the bound session at
\* most by removing that connection's participant from its list.
C21_TerminationIsLocal ==
    [][\A c \in Conns :
          (cleanup_connection(c) \/ (conn[c].closing /\ HandlerStep(c)))
            => /\ \A d \in AllConns \ {c} :
                     /\ conn'[d] = conn[d] /\ lst'[d] = lst[d]
                     /\ chan'[d] = chan[d] /\ out'[d] = out[d]
               /\ \A s \in SessionIds \ conn[c].session_id : store'[s] = store[s]
               /\ \A s \in conn[c].session_id : \A x \in store[s] :
                     \/ store'[s] = {x}
                     \/ \E p \in conn[c].participant_id :
                           store'[s] = {remove_participant(x, p)}]_vars

C23_PointKeysAreMembers ==
    \A s \in SessionIds :
      /\ \A x \in store[s] : PointKeys(x) \subseteq MemberIds(x)
      /\ \A e \in events[s] : PointKeys(e.msg) \subseteq MemberIds(e.msg)

\* The fields of a session other than field f.
OtherFields(session, f) == [g \in DOMAIN session \ {f} |-> session[g]]

\* C27: a ToggleHidePoints handled on a connection bound to a stored session
\* makes the handler hold the session it read with hide_points negated and
\* every other field as read, and that is what its update stores; applied
\* twice to any stored session, toggle_hide_points gives the session back.
C27_ToggleIsInvolution ==
    /\ [][\A c \in Conns :
            (handle_toggle_hide_points(c) /\ BoundSession(c) # {})
              => \E x \in BoundSession(c) : \E y \in conn'[c].cur :
                    /\ y.hide_points = ~x.hide_points
                    /\ OtherFields(y, "hide_points") = OtherFields(x, "hide_points")
                    /\ conn'[c].pc = "update" /\ conn'[c].sid \in conn[c].session_id]_vars
    /\ [][\A c \in Conns :
            (handler_update(c) /\ store[conn[c].sid] # {})
              => store'[conn[c].sid] = conn[c].cur]_vars
    /\ [](\A s \in SessionIds : \A x \in store[s] :
            /\ toggle_hide_points(x).hide_points = ~x.hide_points
            /\ toggle_hide_points(toggle_hide_points(x)) = x)

\* A subscribed connection received the snapshot of a first toggle, with
\* hide_points true, and then that of a second, equal to the new session.
C27_Witness ==
    \E c \in Conns : \E s \in conn[c].session_id :
      /\ Len(out[c]) = 2
      /\ \E y \in out[c][1].session :
            y.hide_points /\ OtherFields(y, "hide_points") = OtherFields(NewSession(s), "hide_points")
      /\ out[c][2].session = {NewSession(s)} /\ out[c][2].seq = out[c][1].seq + 1
      /\ store[s] = {NewSession(s)}

\* C24: once the PointSession frames of the two joined participants, sent
\* after both were stored and with no ClearPoints or removal handled, have
\* been processed to their end, the stored session's point map has exactly
\* one entry for each of the two participant ids, whether the two handlers ran
\* one after the other or concurrently.
C24_EveryVoteIsStored ==
    (frames = VoteFrames /\ \A c \in Conns : conn[c].pc = "select")
      => \A x \in store["S1"] :
            /\ PointKeys(x) = UNION {conn[c].added : c \in Conns}
            /\ Cardinality(x.current_points) = Cardinality(Conns)

\* C26: a ClearPoints handled on a connection bound to a stored session makes
\* the handler hold the session it read with an empty point map and every
\* other field (name, duration, members, topic, hide_points) as read; the
\* handler's update stores exactly the session it holds and its publish
\* writes exactly that session to the mailbox.
C26_ClearPointsKeepsTheRest ==
    /\ [][\A c \in Conns :
            (handle_clear_points(c) /\ BoundSession(c) # {})
              => \E x \in BoundSession(c) : \E y \in conn'[c].cur :
                    /\ y.current_points = {}
                    /\ OtherFields(y, "current_points") = OtherFields(x, "current_points")
                    /\ conn'[c].pc = "update" /\ conn'[c].sid \in conn[c].session_id]_vars
    /\ [][\A c \in Conns :
            /\ (handler_update(c) /\ store[conn[c].sid] # {})
                 => store'[conn[c].sid] = conn[c].cur
            /\ handler_publish_insert(c)
                 => {e.msg : e \in events'[conn[c].sid]} = conn[c].cur]_vars

\* After the ClearPoints the store holds both participants and no vote, and
\* the subscribed connection, which had received a snapshot with votes, has
\* received that session as its latest snapshot.
C26_Witness ==
    /\ frames = VoteFrames + 1 /\ conn["A"].pc = "select"
    /\ \E x \in store["S1"] :
          /\ x.current_points = {} /\ Len(x.members) = Cardinality(Conns)
          /\ out["A"] # <<>> /\ out["A"][Len(out["A"])].session = {x}
    /\ \E i \in 1..Len(out["A"]) : \E y \in out["A"][i].session : y.current_points # {}

\* C25: update on an id absent from the store fails with NotFound and leaves
\* the store as it is, and an id that end has removed is never present again:
\* no update, also none running concurrently with the end, re-inserts it.
C25_UpdateNeverUpserts ==
    /\ [][\A t \in HubTasks, s \in SessionIds :
            (store[s] = {} /\ \E session \in UpdateValues(s) : sessions_update(t, s, session))
              => last' = Ret(t, "update", s, {}, FALSE, 0) /\ store' = store]_vars
    /\ [][\A s \in SessionIds : (s \in usedIds /\ store[s] = {}) => store'[s] = {}]_vars

\* C28: leave with a participant id that is not in the session's list returns
\* Ok and leaves the store unchanged; and for every stored session removing
\* an id that is no member changes nothing, so removing an id twice gives
\* the same session as removing it once.
C28_RemovingAbsentParticipant ==
    /\ [][\A t \in HubTasks, s \in SessionIds, p \in 1..MaxParticipants :
            (sessions_leave(t, s, p) /\ \E x \in store[s] : p \notin MemberIds(x))
              => last' = Ret(t, "leave", s, {}, TRUE, p) /\ store' = store]_vars
    /\ [](\A s \in SessionIds : \A x \in store[s] : \A p \in 1..MaxParticipants :
            /\ p \notin MemberIds(x) => remove_participant(x, p) = x
            /\ p \notin MemberIds(remove_participant(x, p))
            /\ remove_participant(remove_participant(x, p), p) = remove_participant(x, p))

\* leave returned Ok for an id that was never generated, on a session that
\* has a participant.
C28_Witness ==
    /\ last.op = "leave" /\ last.flag /\ last.cnt > nextPid
    /\ \E x \in store[last.sid] : Len(x.members) = 1

\* C29: end on an existing session removes its entry and returns Ok, end on
\* an absent id returns NotFound, and in both cases every other session is
\* unchanged; get, update, join, leave and end on an absent id return
\* NotFound and leave the store unchanged.
C29_EndRemovesSession ==
    [][\A t \in HubTasks, s \in SessionIds :
          /\ sessions_end(t, s)
               => /\ store'[s] = {}
                  /\ \A r \in SessionIds \ {s} : store'[r] = store[r]
                  /\ last' = Ret(t, "end", s, {}, store[s] # {}, 0)
          /\ (/\ store[s] = {}
              /\ \/ sessions_get(t, s)
                 \/ \E session \in UpdateValues(s) : sessions_update(t, s, session)
                 \/ \E name \in Names : sessions_join(t, s, name)
                 \/ \E p \in 1..MaxParticipants : sessions_leave(t, s, p)
                 \/ sessions_end(t, s))
               => /\ store' = store /\ task' = task
                  /\ last'.t = t /\ last'.sid = s /\ ~last'.flag /\ last'.ev = {}
                  /\ last'.op \in {"get", "update", "join", "leave", "end"}]_vars

\* A get returned NotFound for an id that was created and ended, while another
\* session that has a participant is still stored.
C29_Witness ==
    /\ last.op = "get" /\ ~last.flag
    /\ last.sid \in usedIds /\ store[last.sid] = {}
    /\ \E r \in SessionIds \ {last.sid} : \E x \in store[r] : x.members # <<>>

\* C30: create stores, under an id no stored session has, a session with no
\* participants, no points, the empty topic and hide_points false, returns
\* it with Ok, leaves every other session unchanged, and a get of the
\* returned id in the state after create yields the returned session.
C30_CreateStoresNewSession ==
    [][\A t \in HubTasks, s \in SessionIds :
          sessions_create(t, s)
            => /\ store[s] = {}
               /\ \A r \in SessionIds \ {s} : store'[r] = store[r]
               /\ last'.op = "create" /\ last'.flag /\ last'.sid = s
               /\ store_get(store', s) = last'.ev
               /\ \E x \in last'.ev :
                     /\ x.id = s /\ x.members = <<>> /\ x.current_points = {}
                     /\ x.current_topic = "" /\ ~x.hide_points
               /\ Cardinality(last'.ev) = 1]_vars

\* A create returned while another session that has a participant is stored.
C30_Witness ==
    /\ last.op = "create" /\ last.flag /\ store[last.sid] = last.ev
    /\ \E r \in SessionIds \ {last.sid} : \E x \in store[r] : x.members # <<>>

\* C39: in every state a session id that has an event in the hub's mailbox
\* has a registered notifier, under every interleaving of publish with
\* subscribe and cleanup_session.
C39_EventImpliesNotifier ==
    \A s \in SessionIds : has_event(events, s) => notifiers[s] # {}

\* C38: a mailbox write k made after the Subscribe sequence of connection c
\* has returned success (its listener task is spawned, whether or not it has
\* created its first wait future) is eventually followed by a SessionUpdate
\* on the socket of c that carries write k or a later one, also when no
\* further publish occurs.
C38_PublishAfterSubscribeIsDelivered ==
    \A c \in Conns, k \in 1..2 :
      []((conn[c].task_handle /\ pubSeq < k) =>
            [](pubSeq >= k => <>(\E i \in DOMAIN Received(c) : Received(c)[i].seq >= k)))

\* C33: no step of a listener task changes the Session Store, the hub's
\* notifier map or the hub's mailbox; the mailbox read of a listener returns
\* the mailbox content and leaves it in place, so that it returns the same
\* to the listeners that read after it.
C33_ListenerOnlyBridges ==
    [][\A c \in Conns :
          /\ ListenerStep(c) => UNCHANGED <<store, notifiers, events, registered, pubSeq>>
          /\ listener_get_event(c) =>
                /\ lst'[c].msg = events[lst[c].sid]
                /\ get_event(events', lst[c].sid) = lst'[c].msg]_vars

\* Both sockets have received the snapshot of the same mailbox write, and
\* that write is still in the mailbox.
C33_Witness ==
    \E e \in events["S1"] :
       \A c \in Conns : \E i \in DOMAIN Received(c) : Received(c)[i].seq = e.seq

\* C37: a handle obtained for session s before a cleanup_session(s) never
\* names the notifier registered for s afterwards; the notifier lookup of a
\* publish made while the handle is already stale does not find the handle's
\* Notify; and notify_waiters completes only futures of the Notify that the
\* publish found, so that publish leaves the futures of the old handle alone.
C37_OldHandleIsUnreachable ==
    /\ [](\A t \in HubTasks : \A h \in task[t].handle :
             h.stale => notifiers[h.sid] # {h.n})
    /\ [][hub_publish_lookup(Publisher) =>
             \A t \in HubTasks : \A h \in task[t].handle :
                (h.stale /\ h.sid = task[Publisher].sid) => h.n \notin task'[Publisher].found]_vars
    /\ [][hub_publish_notify(Publisher) =>
             \A t \in HubTasks :
                (\A f \in notified[t] : f.n \notin task[Publisher].found)
                   => notified'[t] = notified[t]]_vars

\* One task waits on a future of the handle it obtained before the cleanup,
\* not completed, while a publish has completed the future of a task that
\* subscribed after the cleanup.
C37_Witness ==
    \E t \in HubTasks, u \in HubTasks :
      /\ task[t].pc = "waiting" /\ task[u].pc = "waiting"
      /\ \E h \in task[t].handle : h.stale /\ \E f \in notified[t] : f.n = h.n /\ f.fired = 0
      /\ \E h \in task[u].handle :
            ~h.stale /\ notifiers[h.sid] = {h.n} /\ \E f \in notified[u] : f.n = h.n /\ f.fired > 0
      /\ last.op = "publish"

\* The task is inside a hub call and the lock it needs next is not granted.
Blocked(t) ==
    \/ task[t].pc = "pub_lookup" /\ ~CanRead(t, "notifiers")
    \/ task[t].pc = "pub_insert" /\ ~CanWrite(t, "events")
    \/ task[t].pc = "cleanup_notifiers" /\ ~CanWrite(t, "notifiers")

\* C36: a task that is about to call notify_waiters in publish holds no guard
\* of either hub lock; the only task holding a guard across steps is one
\* inside cleanup_session, holding the events write guard; and whenever a
\* task inside a hub call waits for a lock, a task holding a guard of that
\* kind is not itself waiting, so no set of hub calls waits in a cycle.
C36_NoLockHeldAtNotifyNoDeadlock ==
    \A t \in HubTasks :
      /\ task[t].pc = "pub_notify" => task[t].held = {}
      /\ task[t].held # {} =>
            /\ task[t].pc = "cleanup_notifiers"
            /\ task[t].held = {[lock |-> "events", mode |-> "write"]}
      /\ Blocked(t) => \E u \in HubTasks \ {t} : task[u].held # {} /\ ~Blocked(u)

\* One task is inside cleanup_session holding the events write guard while
\* another is inside publish after its lookup, waiting for that lock.
C36_Witness ==
    \E t \in HubTasks, u \in HubTasks :
      /\ task[t].pc = "cleanup_notifiers" /\ task[t].sid = task[u].sid
      /\ task[u].pc = "pub_insert" /\ task[u].found # {}
      /\ Blocked(u) /\ ~Blocked(t)

\* C34: a connection whose handler loop has exited (Close frame, read error
\* or end of the inbound stream) eventually is closed; the loop exits only
\* once and cleanup_subscription runs only once, on a closing connection,
\* aborting the listener exactly when there is one that has not finished; a
\* closed connection has no listener handle, no channel and no participant
\* id, its listener task is not running and holds no wait future; and no
\* step changes a closed connection, its listener, its channel or its socket.
C34_CloseRunsCleanupOnce ==
    /\ \A c \in Conns : conn[c].closing ~> conn[c].pc = "closed"
    /\ [](\A c \in Conns :
             conn[c].pc = "closed" =>
                /\ conn[c].closing /\ ~conn[c].task_handle /\ ~conn[c].outbound_rx
                /\ conn[c].participant_id = {} /\ chan[c] = <<>>
                /\ lst[c].pc \in {"none", "aborted", "ended"} /\ notified[c] = {})
    /\ [][\A c \in Conns :
             /\ cleanup_connection(c) => ~conn[c].closing
             /\ cleanup_subscription(c) =>
                   /\ conn[c].closing /\ conn[c].closed_at = {}
                   /\ (conn[c].task_handle /\ lst[c].pc # "ended") => lst'[c].pc = "aborted"
                   /\ ~(conn[c].task_handle /\ lst[c].pc # "ended") => lst'[c] = lst[c]
             /\ conn[c].pc = "closed" =>
                   /\ conn'[c] = conn[c] /\ lst'[c] = lst[c]
                   /\ chan'[c] = chan[c] /\ out'[c] = out[c]]_vars

\* A connection that had subscribed and joined is closed with its listener
\* aborted, while the other connection's listener still waits.
C34_Witness ==
    \E c \in Conns, d \in Conns :
      /\ conn[c].pc = "closed" /\ conn[c].added # {} /\ lst[c].pc = "aborted"
      /\ conn[d].pc = "select" /\ conn[d].task_handle /\ lst[d].pc = "waiting"

\* C35: the handling of an inbound CreateSession, AddParticipant or
\* SessionUpdate message or of a binary, ping or pong frame changes neither
\* the Session Store, the hub's notifier map and mailbox, the wait futures,
\* any connection's state, any listener, any channel nor any socket: nothing
\* is published or sent back, and the connection stays at the top of its
\* loop, not closing.
C35_IgnoredFramesAreNoOps ==
    [][\A c \in Conns :
          handle_noop(c) =>
             /\ UNCHANGED <<store, notifiers, events, notified, pubSeq, registered>>
             /\ UNCHANGED <<conn, lst, chan, out>>
             /\ conn'[c].pc = "select" /\ ~conn'[c].closing]_vars

\* Ignored frames were handled on a subscribed connection whose listener
\* waits: nothing was published and nothing written to any socket.
C35_Witness ==
    /\ NoopCount >= 2
    /\ pubSeq = 0
    /\ \A c \in Conns :
          /\ conn[c].pc = "select" /\ conn[c].task_handle /\ ~conn[c].closing
          /\ lst[c].pc = "waiting" /\ chan[c] = <<>> /\ out[c] = <<>>

\* C32: a PointSession frame whose participant id is not in the participant
\* list of the session the handler read leaves the handler's copy equal to
\* that session, point map and all other fields, and that copy is what the
\* handler stores; and, no participant being removed, every key of a stored
\* or published point map is the id of a participant of the session.
C32_UnknownVoterIsRejected ==
    /\ [][\A c \in Conns, p \in 0..MaxParticipants, v \in Points :
             (/\ handle_point_session(c, "S1", p, v)
              /\ \E x \in store["S1"] : p \notin MemberIds(x))
               => /\ conn'[c].cur = store["S1"]
                  /\ \A y \in conn'[c].cur : p \notin PointKeys(y)]_vars
    /\ [][\A c \in Conns :
             (handler_update(c) /\ conn[c].cur = store[conn[c].sid]) => store' = store]_vars
    /\ [](\A x \in store["S1"] : PointKeys(x) \subseteq MemberIds(x))
    /\ [](\A e \in events["S1"] : PointKeys(e.msg) \subseteq MemberIds(e.msg))

\* B's PointSession for an id that is no participant was read from a session
\* that holds A's vote: the copy B is about to store is that session.
C32_Witness ==
    /\ conn["B"].pc = "update"
    /\ conn["B"].cur = store["S1"]
    /\ \E x \in store["S1"] : MemberIds(x) = {1} /\ PointKeys(x) = {1}

\* A frame of one of the six mutating kinds is handled on c and its initial
\* sessions.get misses.
StoreMiss(c, on) ==
    \/ on = "JoinSession" /\ \E name \in Names : handle_join_session(c, "S1", name)
    \/ on = "RemoveParticipant" /\ \E p \in 1..MaxParticipants : handle_remove_participant(c, "S1", p)
    \/ on = "PointSession" /\ \E p \in 1..MaxParticipants : handle_point_session(c, "S1", p, {5})
    \/ on = "SetTopic" /\ conn[c].session_id # {} /\ handle_set_topic(c, "x")
    \/ on = "ClearPoints" /\ conn[c].session_id # {} /\ handle_clear_points(c)
    \/ on = "ToggleHidePoints" /\ conn[c].session_id # {} /\ handle_toggle_hide_points(c)

\* C31: a RemoveParticipant, PointSession, SetTopic, ClearPoints,
\* ToggleHidePoints or JoinSession frame whose sessions.get finds no session
\* is answered SessionNotFound, and a handler whose sessions.update fails is
\* answered InvalidMessage; a step that writes SessionNotFound or
\* InvalidMessage (a malformed text among them) to a socket ends the handler
\* at the top of its loop, writes nothing to the store or the hub, completes
\* no wait future and adds nothing to any channel or to another socket.
C31_FailedHandlerPublishesNothing ==
    /\ [][\A c \in Conns :
             \A on \in {"JoinSession", "RemoveParticipant", "PointSession", "SetTopic",
                        "ClearPoints", "ToggleHidePoints"} :
                (store["S1"] = {} /\ StoreMiss(c, on))
                   => out'[c] = Append(out[c], ErrorText("SessionNotFound", on))]_vars
    /\ [][\A c \in Conns :
             (handler_update_check(c) /\ store[conn[c].sid] = {} /\ ~conn[c].closing)
                => out'[c] = Append(out[c], ErrorText("InvalidMessage", "Update"))]_vars
    /\ [][\A c \in Conns :
             (/\ Len(out'[c]) = Len(out[c]) + 1
              /\ out'[c][Len(out'[c])].tag \in {"SessionNotFound", "InvalidMessage"})
               => /\ conn'[c].pc = "select"
                  /\ UNCHANGED <<store, notifiers, events, pubSeq, notified, chan, lst>>
                  /\ \A d \in Conns \ {c} : out'[d] = out[d]]_vars

\* B's update failed and was answered InvalidMessage, the session having been
\* ended after B's handler had read it; nothing was published and the
\* subscribed connection A, whose listener waits, has received nothing.
C31_Witness ==
    /\ out["B"] # <<>> /\ out["B"][Len(out["B"])] = ErrorText("InvalidMessage", "Update")
    /\ conn["B"].pc = "select"
    /\ store["S1"] = {} /\ pubSeq = 0 /\ events["S1"] = {}
    /\ conn["A"].task_handle /\ lst["A"].pc = "waiting"
    /\ chan["A"] = <<>> /\ out["A"] = <<>>

\* C40: a connection whose handler is at the top of its loop records a
\* participant id only if one of its sessions.update calls has put that
\* participant in the Session Store; and a JoinSession whose lookup misses
\* leaves the connection state as it was.
C40_FailedJoinLeavesNoParticipantId ==
    /\ [](\A c \in Conns :
             conn[c].pc = "select" => conn[c].participant_id \subseteq conn[c].written)
    /\ [][\A c \in Conns :
             (store["S1"] = {} /\ \E name \in Names : handle_join_session(c, "S1", name))
                => conn'[c] = conn[c]]_vars

====
